---------------------------- MODULE Spec2Model ----------------------------
(***************************************************************************)
(* Model of the query-serving core of ELI5 (backend/):                     *)
(*   - RateLimitMiddleware (api/middleware.py): per-client sliding window   *)
(*     and concurrency gate;                                                *)
(*   - CacheManager (utils/cache.py): get/set/delete/clear_pattern on the   *)
(*     in-process map and on the Redis backend, and cache key derivation.   *)
(*                                                                          *)
(* The specifications of the module:                                       *)
(*   Spec      the admission controller under interleaved requests,         *)
(*   SpecCache two CacheManager instances (in-process, Redis) driven by the *)
(*             same sequence of calls,                                      *)
(*   SpecKey   CacheManager._generate_cache_key applied to bounded inputs,  *)
(*   SpecPack  the context packing of query and of stream_query             *)
(*             (rag/pipeline.py) applied to bounded retrieval results,      *)
(*   SpecQuery one CacheManager, on the in-process map or on Redis, with    *)
(*             its statistics and its failures, under the calls of the      *)
(*             pipeline: query, process_document, get_document_info,        *)
(*             delete_document, get_system_stats,                           *)
(*   SpecDocuments the pipeline's calls on its documents: ingestion,        *)
(*             queries with a document scope and failing collaborators,     *)
(*             get_document_info and delete_document,                       *)
(*   SpecStream one streaming request (stream_query behind dispatch), its   *)
(*             frames, its failures and the caller's disconnect.            *)
(***************************************************************************)
EXTENDS Integers, Sequences, FiniteSets, TLC

VARIABLES
    \* ---- configuration (core/config.py, Settings) ----
    RATE_LIMIT_PER_MINUTE,      \* settings.RATE_LIMIT_PER_MINUTE
    MAX_CONCURRENT_REQUESTS,    \* settings.MAX_CONCURRENT_REQUESTS
    \* ---- RateLimitMiddleware ----
    now,                        \* the wall clock read by time.time()
    requests,                   \* self.requests: client -> deque of timestamps
    concurrent_requests,        \* self.concurrent_requests: client -> int
    downstream,                 \* client -> number of dispatch coroutines
                                \*   suspended in `await call_next` (line 66)
    healthDownstream,           \* client -> number of dispatch coroutines
                                \*   suspended in `await call_next` (line 31)
    \* ---- history of the admission controller (observation only) ----
    log,                        \* client -> sequence of the requests it issued,
                                \*   each with the response dispatch gave
    terminated,                 \* client -> number of admitted downstream
                                \*   calls that have terminated
    \* ---- CacheManager: one instance on the in-process map, one on Redis ----
    memory_cache,               \* self._memory_cache of the in-process instance:
                                \*   key -> [value, expires]
    redis_store,                \* the keyspace behind self.redis_client of the
                                \*   Redis instance: key -> [value, expire_at]
    result,                     \* the last cache call, its time and what each
                                \*   instance returned
    \* ---- history of the cache (observation only) ----
    lastSet,                    \* key -> <<the last set call on it: its value,
                                \*   the time its ttl runs out, what each
                                \*   instance returned>>, or <<>> once a delete
                                \*   or clear_pattern call intervened
    \* ---- CacheManager._generate_cache_key ----
    keyInputs,                  \* two calls: <<[prefix, args, kwargs], [..]>>
    keyOutputs,                 \* <<>>, then the two keys returned
    \* ---- context packing of query / stream_query (rag/pipeline.py) ----
    relevant_docs,              \* what similarity_search returned, best first
    max_context_length,         \* the max_context_length argument
    queryPacked,                \* <<>>, then <<the locals of query after its
                                \*   step 4: context_parts, current_length,
                                \*   sources_used, context>>
    streamPacked,               \* <<>>, then <<the locals of stream_query
                                \*   after "Build context">>
    \* ---- the pipeline on one CacheManager (rag/pipeline.py, utils/cache.py) ----
    redis_client,               \* whether self.redis_client is set (REDIS_URL)
    cache_stats,                \* self._cache_stats
    heap,                       \* the dict objects alive: reference -> contents
    indexed,                    \* whether the vector store holds the document
    retrievals,                 \* calls of vector_store.similarity_search so far
    generations,                \* calls of llm_provider.generate so far
    calls,                      \* calls made on the pipeline and the cache so far
    outcome,                    \* the last call: its arguments and what it did
    stats_view,                 \* <<>>, then <<the mapping get_stats returned>>
    \* ---- the documents of the pipeline (storage/file_manager.py, ----
    \* ---- embeddings/vector_store.py) ----
    files,                      \* the document ids with a file in the upload dir
    chunks,                     \* the document ids with chunks in the collection
    \* ---- history of the documents (observation only) ----
    madeFor,                    \* answer generated -> the document_id argument
                                \*   of the query that generated it
    stale,                      \* the answers generated for a document before
                                \*   a delete_document call on it returned
    \* ---- one streaming request (rag/pipeline.py stream_query behind ----
    \* ---- RateLimitMiddleware.dispatch) ----
    stream_pc,                  \* where the generator stands: "idle" before
                                \*   the request, "created", then the yield it
                                \*   is suspended at, "done" once exhausted
    stream_client,              \* <<>>, then <<the client of the request>>
    stream_question,            \* the question argument
    fragments,                  \* what llm_provider.stream_generate yields
    stream_fault,               \* the collaborator call that raises, if any
    frames,                     \* the frames yielded so far
    stream_relevant,            \* the local relevant_docs (line 232)
    chunk_count,                \* the local chunk_count (line 282)
    stream_generations,         \* calls of llm_provider.stream_generate so far
    connected,                  \* whether the caller is still connected
    stream_end                  \* <<>>, then <<how the downstream call of the
                                \*   request terminated>>

admVars == <<RATE_LIMIT_PER_MINUTE, MAX_CONCURRENT_REQUESTS, now, requests,
             concurrent_requests, downstream, healthDownstream, log, terminated>>

\* the admission controller's own state (the clock is shared with the cache)
admState == <<RATE_LIMIT_PER_MINUTE, MAX_CONCURRENT_REQUESTS, requests,
              concurrent_requests, downstream, healthDownstream, log, terminated>>

cacheVars == <<memory_cache, redis_store, result, lastSet>>

keyVars == <<keyInputs, keyOutputs>>

packVars == <<relevant_docs, max_context_length, queryPacked, streamPacked>>

svcVars == <<redis_client, cache_stats, heap, indexed, retrievals, generations,
             calls, outcome, stats_view>>

docVars == <<files, chunks, madeFor, stale>>

streamVars == <<stream_pc, stream_client, stream_question, fragments,
                stream_fault, frames, stream_relevant, chunk_count,
                stream_generations, connected, stream_end>>

vars == <<admVars, cacheVars, keyVars, packVars, svcVars, docVars, streamVars>>

\* what a step of one component leaves alone
outsideAdmission == <<cacheVars, keyVars, packVars, svcVars, docVars, streamVars>>
outsideCache == <<admState, keyVars, packVars, svcVars, docVars, streamVars>>
outsideKey == <<admVars, cacheVars, packVars, svcVars, docVars, streamVars>>
outsidePack == <<admVars, cacheVars, keyVars, svcVars, docVars, streamVars>>
outsideService == <<admState, result, lastSet, keyVars, packVars, docVars,
                    streamVars>>
outsideDocuments == <<admState, result, lastSet, keyVars, packVars, streamVars>>
outsideStream == <<result, lastSet, keyVars, packVars, docVars>>

-----------------------------------------------------------------------------
(* Bounds of the model *)

MaxRateLimit == 2       \* configured per-minute limits explored: 1..MaxRateLimit
MaxConcurrent == 2      \* configured concurrency limits explored: 1..MaxConcurrent
MaxRequests == 3        \* requests dispatched in one behaviour
MaxTime == 62           \* last clock value explored (seconds)
MaxCacheTime == 3       \* last clock value explored by the cache (seconds)
MaxTTL == 2             \* explicit ttl arguments explored: 1..MaxTTL
MaxArgs == 2            \* positional arguments of a key derivation: 0..MaxArgs
MaxChunks == 3          \* chunks in one retrieval result: 1..MaxChunks
MaxCalls == 3           \* calls on the pipeline and the cache in one behaviour
MaxTicks == 2           \* clock steps (of half a CACHE_TTL) under the pipeline
MaxDocCalls == 4        \* calls on the pipeline's documents in one behaviour
MaxFragments == 2       \* fragments of one streamed generation: 0..MaxFragments

Clients == {"10.0.0.1", "10.0.0.2"}

\* request.url.path as its sequence of segments
HealthPath == <<"api", "v1", "health">>
QueryPath == <<"api", "v1", "query">>
HealthPrefixPath == <<"health", "report">>
Paths == {HealthPath, QueryPath, HealthPrefixPath}

-----------------------------------------------------------------------------
(* Helpers on sequences *)

RECURSIVE SumOver(_, _)
SumOver(S, f) ==
    IF S = {} THEN 0
    ELSE LET x == CHOOSE y \in S : TRUE IN f[x] + SumOver(S \ {x}, f)

IsSuffix(s, t) ==
    /\ Len(s) <= Len(t)
    /\ s = SubSeq(t, Len(t) - Len(s) + 1, Len(t))

-----------------------------------------------------------------------------
(* RateLimitMiddleware *)

\* the trailing window of _clean_old_requests: minute_ago = current_time - 60
WindowSeconds == 60

\* request.url.path.endswith('/health')
EndsWithHealth(path) == Len(path) > 0 /\ path[Len(path)] = "health"

\* _clean_old_requests: popleft while the oldest timestamp is < current_time - 60
CleanOldKeepAll(window, current_time) == window
RECURSIVE CleanOld(_, _)
CleanOld(window, current_time) ==
    IF window # <<>> /\ Head(window) < current_time - WindowSeconds
    THEN CleanOld(Tail(window), current_time)
    ELSE window

\* line 37: len(self.requests[client_ip]) >= settings.RATE_LIMIT_PER_MINUTE
RateLimitedOffByOne(window) == Len(window) > RATE_LIMIT_PER_MINUTE
RateLimited(window) == Len(window) >= RATE_LIMIT_PER_MINUTE

\* line 49: self.concurrent_requests[client_ip] >= settings.MAX_CONCURRENT_REQUESTS
TooManyConcurrentOffByOne(inflight) == inflight > MAX_CONCURRENT_REQUESTS
TooManyConcurrent(inflight) == inflight >= MAX_CONCURRENT_REQUESTS

\* the JSONResponse of lines 39-46
RateLimitResponse ==
    [outcome |-> "rejected", status_code |-> 429,
     error |-> "rate_limit_exceeded", retry_after |-> 60]

\* the JSONResponse of lines 51-58
ConcurrentResponse ==
    [outcome |-> "rejected", status_code |-> 429,
     error |-> "too_many_concurrent_requests", retry_after |-> 10]

\* the request goes on to call_next: the response is the downstream handler's
Forwarded ==
    [outcome |-> "forwarded", status_code |-> 0, error |-> "", retry_after |-> 0]

\* lines 36-58: the two checks, in the order of the code
AdmissionCheckConcurrencyFirst(window, inflight) ==
    IF TooManyConcurrent(inflight) THEN ConcurrentResponse
    ELSE IF RateLimited(window) THEN RateLimitResponse
    ELSE Forwarded
AdmissionCheck(window, inflight) ==
    IF RateLimited(window) THEN RateLimitResponse
    ELSE IF TooManyConcurrent(inflight) THEN ConcurrentResponse
    ELSE Forwarded

LogEntry(path, current_time, inflight, resp) ==
    [time |-> current_time, health |-> EndsWithHealth(path),
     inflight |-> inflight, resp |-> resp]

Dispatched == SumOver(Clients, [c \in Clients |-> Len(log[c])])

\* lines 30-31: a health probe goes straight to call_next
HealthForwardAfterClean(c, path, current_time) ==
    /\ requests' = [requests EXCEPT ![c] = CleanOld(@, current_time)]
    /\ healthDownstream' = [healthDownstream EXCEPT ![c] = @ + 1]
    /\ log' = [log EXCEPT ![c] =
                 Append(@, LogEntry(path, current_time, downstream[c], Forwarded))]
    /\ UNCHANGED <<concurrent_requests, downstream>>
HealthForward(c, path, current_time) ==
    /\ healthDownstream' = [healthDownstream EXCEPT ![c] = @ + 1]
    /\ log' = [log EXCEPT ![c] =
                 Append(@, LogEntry(path, current_time, downstream[c], Forwarded))]
    /\ UNCHANGED <<requests, concurrent_requests, downstream>>

\* lines 34-58: the window has been cleaned, one of the checks fails and the
\* JSONResponse is returned
RejectAfterAppend(c, path, current_time, resp) ==
    /\ requests' = [requests EXCEPT ![c] =
                      Append(CleanOld(@, current_time), current_time)]
    /\ log' = [log EXCEPT ![c] =
                 Append(@, LogEntry(path, current_time, downstream[c], resp))]
    /\ UNCHANGED <<concurrent_requests, downstream, healthDownstream>>
Reject(c, path, current_time, resp) ==
    /\ requests' = [requests EXCEPT ![c] = CleanOld(@, current_time)]
    /\ log' = [log EXCEPT ![c] =
                 Append(@, LogEntry(path, current_time, downstream[c], resp))]
    /\ UNCHANGED <<concurrent_requests, downstream, healthDownstream>>

\* lines 34, 60-66: both checks pass, the timestamp is appended, the counter
\* incremented and the coroutine suspends in `await call_next(request)`
Admit(c, path, current_time) ==
    /\ requests' = [requests EXCEPT ![c] =
                      Append(CleanOld(@, current_time), current_time)]
    /\ concurrent_requests' = [concurrent_requests EXCEPT ![c] = @ + 1]
    /\ downstream' = [downstream EXCEPT ![c] = @ + 1]
    /\ log' = [log EXCEPT ![c] =
                 Append(@, LogEntry(path, current_time, downstream[c], Forwarded))]
    /\ UNCHANGED healthDownstream

\* dispatch, lines 24-66, up to its first suspension point: the code between
\* the start of the coroutine and `await call_next` holds no await, so the
\* event loop runs it as one step
Dispatch(c, path) ==
    /\ Dispatched < MaxRequests
    /\ LET current_time == now
           resp == AdmissionCheck(CleanOld(requests[c], current_time),
                                  concurrent_requests[c])
       IN  IF EndsWithHealth(path) THEN HealthForward(c, path, current_time)
           ELSE IF resp.outcome = "rejected" THEN Reject(c, path, current_time, resp)
           ELSE Admit(c, path, current_time)
    /\ UNCHANGED <<RATE_LIMIT_PER_MINUTE, MAX_CONCURRENT_REQUESTS, now, terminated>>
    /\ UNCHANGED outsideAdmission

Terminations == {"return", "raise", "cancel"}

\* lines 66-70: the downstream call of an admitted request returns, raises or
\* is cancelled; the finally block decrements the counter
CompleteReleaseOnReturnOnly(c, how) ==
    /\ downstream[c] > 0
    /\ downstream' = [downstream EXCEPT ![c] = @ - 1]
    /\ concurrent_requests' =
         IF how = "return" THEN [concurrent_requests EXCEPT ![c] = @ - 1]
         ELSE concurrent_requests
    /\ terminated' = [terminated EXCEPT ![c] = @ + 1]
    /\ UNCHANGED <<RATE_LIMIT_PER_MINUTE, MAX_CONCURRENT_REQUESTS, now, requests,
                   healthDownstream, log>>
    /\ UNCHANGED outsideAdmission
Complete(c, how) ==
    /\ downstream[c] > 0
    /\ downstream' = [downstream EXCEPT ![c] = @ - 1]
    /\ concurrent_requests' = [concurrent_requests EXCEPT ![c] = @ - 1]
    /\ terminated' = [terminated EXCEPT ![c] = @ + 1]
    /\ UNCHANGED <<RATE_LIMIT_PER_MINUTE, MAX_CONCURRENT_REQUESTS, now, requests,
                   healthDownstream, log>>
    /\ UNCHANGED outsideAdmission

\* line 31: the downstream call of a health probe terminates
HealthComplete(c, how) ==
    /\ healthDownstream[c] > 0
    /\ healthDownstream' = [healthDownstream EXCEPT ![c] = @ - 1]
    /\ UNCHANGED <<RATE_LIMIT_PER_MINUTE, MAX_CONCURRENT_REQUESTS, now, requests,
                   concurrent_requests, downstream, log, terminated>>
    /\ UNCHANGED outsideAdmission

\* the clock advances between two steps of the event loop
TickSteps == {WindowSeconds \div 2, WindowSeconds \div 2 + 1}
Tick(d) ==
    /\ now + d <= MaxTime
    /\ now' = now + d
    /\ UNCHANGED <<RATE_LIMIT_PER_MINUTE, MAX_CONCURRENT_REQUESTS, requests,
                   concurrent_requests, downstream, healthDownstream, log,
                   terminated>>
    /\ UNCHANGED outsideAdmission

\* __init__ (lines 16-22) and Settings(): empty defaultdicts, a configured
\* pair of limits
AdmissionInit ==
    /\ RATE_LIMIT_PER_MINUTE \in 1..MaxRateLimit
    /\ MAX_CONCURRENT_REQUESTS \in 1..MaxConcurrent
    /\ now = 0
    /\ requests = [c \in Clients |-> <<>>]
    /\ concurrent_requests = [c \in Clients |-> 0]
    /\ downstream = [c \in Clients |-> 0]
    /\ healthDownstream = [c \in Clients |-> 0]
    /\ log = [c \in Clients |-> <<>>]
    /\ terminated = [c \in Clients |-> 0]

\* the admission controller before its first request, under the default-free
\* smallest configuration
AdmissionIdle ==
    /\ RATE_LIMIT_PER_MINUTE = 1
    /\ MAX_CONCURRENT_REQUESTS = 1
    /\ now = 0
    /\ requests = [c \in Clients |-> <<>>]
    /\ concurrent_requests = [c \in Clients |-> 0]
    /\ downstream = [c \in Clients |-> 0]
    /\ healthDownstream = [c \in Clients |-> 0]
    /\ log = [c \in Clients |-> <<>>]
    /\ terminated = [c \in Clients |-> 0]

-----------------------------------------------------------------------------
(* CacheManager: keys, patterns and values *)

\* Python's None
NoneVal == "None"

\* cache keys and patterns are strings, modelled as sequences of characters
Keys == {<<"b", "a">>, <<"a", "b", "a">>}
Patterns == {<<"*", "b", "*">>, <<"a", "*">>, <<"a", "*", "a">>, <<"*", "b", "a">>}
Values == {"v1", "v2"}
\* settings.CACHE_TTL, the ttl of a set call that passes none
CACHE_TTL == 3600

\* the ttl argument of set: <<n>> for n seconds, <<>> for None; the callers
\* pass a positive number of seconds or nothing (rag/pipeline.py, lines 67, 202)
NoTTL == <<>>
TTLs == {<<n>> : n \in 1..MaxTTL} \cup {NoTTL}

\* if ttl is None: ttl = settings.CACHE_TTL (lines 80-81)
EffectiveTTL(ttl) == IF ttl = NoTTL THEN CACHE_TTL ELSE ttl[1]

\* line 96: the in-process map is swept when its size is a multiple of 100
CleanupEvery == 100

Restrict(f, S) == [k \in S |-> f[k]]

Put(f, k, v) == [x \in DOMAIN f \cup {k} |-> IF x = k THEN v ELSE f[x]]

\* pattern.replace('*', '')
IsNotStar(ch) == ch # "*"
RemoveStars(pattern) == SelectSeq(pattern, IsNotStar)

\* Python's `s in key` on strings
IsSubstring(s, key) ==
    \E i \in 0..(Len(key) - Len(s)) : SubSeq(key, i + 1, i + Len(s)) = s

\* glob-style matching of Redis' MATCH option, for literal characters and `*`
RECURSIVE GlobMatch(_, _)
GlobMatch(pattern, key) ==
    IF pattern = <<>> THEN key = <<>>
    ELSE IF Head(pattern) = "*"
         THEN \/ GlobMatch(Tail(pattern), key)
              \/ key # <<>> /\ GlobMatch(pattern, Tail(key))
         ELSE /\ key # <<>>
              /\ Head(key) = Head(pattern)
              /\ GlobMatch(Tail(pattern), Tail(key))

\* pickle.dumps / pickle.loads of the Redis branch
Pickle(value) == <<"pickle", value>>
Unpickle(bytes) == bytes[2]

-----------------------------------------------------------------------------
(* CacheManager on the in-process map (the else branches) *)

\* _cleanup_memory_cache, lines 153-167
MemCleanup(cache, t) ==
    Restrict(cache, {k \in DOMAIN cache : ~(cache[k].expires <= t)})

\* get, lines 57-70
MemGetInclusiveExpiry(cache, key, t) ==
    IF key \in DOMAIN cache
    THEN IF cache[key].expires >= t
         THEN [cache |-> cache, ret |-> cache[key].value]
         ELSE [cache |-> Restrict(cache, DOMAIN cache \ {key}), ret |-> NoneVal]
    ELSE [cache |-> cache, ret |-> NoneVal]
MemGet(cache, key, t) ==
    IF key \in DOMAIN cache
    THEN IF cache[key].expires > t
         THEN [cache |-> cache, ret |-> cache[key].value]
         ELSE [cache |-> Restrict(cache, DOMAIN cache \ {key}), ret |-> NoneVal]
    ELSE [cache |-> cache, ret |-> NoneVal]

\* set, lines 80-81 and 87-101
MemSet(cache, key, value, ttl, t) ==
    LET effective == EffectiveTTL(ttl)
        stored == Put(cache, key, [value |-> value, expires |-> t + effective])
    IN  [cache |-> IF Cardinality(DOMAIN stored) % CleanupEvery = 0
                   THEN MemCleanup(stored, t)
                   ELSE stored,
         ret |-> TRUE]

\* delete, lines 113-117
MemDelete(cache, key) ==
    IF key \in DOMAIN cache
    THEN [cache |-> Restrict(cache, DOMAIN cache \ {key}), ret |-> TRUE]
    ELSE [cache |-> cache, ret |-> FALSE]

\* clear_pattern, lines 125 and 136-147
MemClearPattern(cache, pattern) ==
    LET keys_to_delete ==
            {key \in DOMAIN cache : IsSubstring(RemoveStars(pattern), key)}
    IN  [cache |-> Restrict(cache, DOMAIN cache \ keys_to_delete),
         ret |-> Cardinality(keys_to_delete)]

-----------------------------------------------------------------------------
(* The Redis keyspace: the commands CacheManager sends *)

\* a key whose expiry time has come is gone for every command
RedisLive(store, t) ==
    Restrict(store, {k \in DOMAIN store : store[k].expire_at > t})

\* the nil reply
Nil == <<>>

\* GET key
RedisCmdGet(store, key, t) ==
    LET live == RedisLive(store, t)
    IN  [store |-> live,
         reply |-> IF key \in DOMAIN live THEN live[key].value ELSE Nil]

\* SETEX key seconds value: an error reply unless seconds > 0
RedisCmdSetex(store, key, seconds, bytes, t) ==
    LET live == RedisLive(store, t)
    IN  IF seconds > 0
        THEN [store |-> Put(live, key, [value |-> bytes, expire_at |-> t + seconds]),
              error |-> FALSE]
        ELSE [store |-> live, error |-> TRUE]

\* DEL key [key ...]: the number of keys removed
RedisCmdDel(store, keys, t) ==
    LET live == RedisLive(store, t)
    IN  [store |-> Restrict(live, DOMAIN live \ keys),
         reply |-> Cardinality(DOMAIN live \cap keys)]

\* SCAN cursor MATCH pattern, iterated until the cursor is 0 again
RedisCmdScan(store, pattern, t) ==
    {k \in DOMAIN RedisLive(store, t) : GlobMatch(pattern, k)}

-----------------------------------------------------------------------------
(* CacheManager on Redis (the `if self.redis_client` branches) *)

\* get, lines 51-56 and 69-75
RedisGet(store, key, t) ==
    LET r == RedisCmdGet(store, key, t)
    IN  [store |-> r.store,
         ret |-> IF r.reply # Nil THEN Unpickle(r.reply) ELSE NoneVal]

\* set, lines 80-86 and 99-105: an error reply raises, set returns False
RedisSet(store, key, value, ttl, t) ==
    LET effective == EffectiveTTL(ttl)
        r == RedisCmdSetex(store, key, effective, Pickle(value), t)
    IN  [store |-> r.store, ret |-> ~r.error]

\* delete, lines 110-112
RedisDelete(store, key, t) ==
    LET r == RedisCmdDel(store, {key}, t)
    IN  [store |-> r.store, ret |-> r.reply > 0]

\* clear_pattern, lines 125-135 and 146-147
RedisClearPattern(store, pattern, t) ==
    LET keys == RedisCmdScan(store, pattern, t)
        r == RedisCmdDel(store, keys, t)
    IN  [store |-> r.store, ret |-> IF keys # {} THEN r.reply ELSE 0]

-----------------------------------------------------------------------------
(* The cache calls, each made on both instances *)

NoCall == [op |-> "none", arg |-> <<>>, at |-> 0, mem |-> NoneVal, redis |-> NoneVal]

CacheGet(key) ==
    LET m == MemGet(memory_cache, key, now)
        r == RedisGet(redis_store, key, now)
    IN  /\ memory_cache' = m.cache
        /\ redis_store' = r.store
        /\ result' = [op |-> "get", arg |-> key, at |-> now, mem |-> m.ret, redis |-> r.ret]
        /\ UNCHANGED <<now, lastSet>>
        /\ UNCHANGED outsideCache

CacheSet(key, value, ttl) ==
    LET m == MemSet(memory_cache, key, value, ttl, now)
        r == RedisSet(redis_store, key, value, ttl, now)
    IN  /\ memory_cache' = m.cache
        /\ redis_store' = r.store
        /\ result' = [op |-> "set", arg |-> key, at |-> now, mem |-> m.ret, redis |-> r.ret]
        /\ lastSet' = [lastSet EXCEPT ![key] =
              <<[value |-> value, until |-> now + EffectiveTTL(ttl),
                 memOk |-> m.ret, redisOk |-> r.ret]>>]
        /\ UNCHANGED now
        /\ UNCHANGED outsideCache

CacheDelete(key) ==
    LET m == MemDelete(memory_cache, key)
        r == RedisDelete(redis_store, key, now)
    IN  /\ memory_cache' = m.cache
        /\ redis_store' = r.store
        /\ result' = [op |-> "delete", arg |-> key, at |-> now, mem |-> m.ret, redis |-> r.ret]
        /\ lastSet' = [lastSet EXCEPT ![key] = <<>>]
        /\ UNCHANGED now
        /\ UNCHANGED outsideCache

CacheClearPattern(pattern) ==
    LET m == MemClearPattern(memory_cache, pattern)
        r == RedisClearPattern(redis_store, pattern, now)
    IN  /\ memory_cache' = m.cache
        /\ redis_store' = r.store
        /\ result' = [op |-> "clear_pattern", arg |-> pattern, at |-> now,
                      mem |-> m.ret, redis |-> r.ret]
        /\ lastSet' = [k \in Keys |-> <<>>]
        /\ UNCHANGED now
        /\ UNCHANGED outsideCache

\* a second passes between two cache calls
CacheTick ==
    /\ now < MaxCacheTime
    /\ now' = now + 1
    /\ UNCHANGED <<memory_cache, redis_store, result, lastSet>>
    /\ UNCHANGED outsideCache

\* __init__, lines 16-33: an empty map, an empty keyspace
CacheInit ==
    /\ memory_cache = <<>>
    /\ redis_store = <<>>
    /\ result = NoCall
    /\ lastSet = [k \in Keys |-> <<>>]

CacheIdle == CacheInit

-----------------------------------------------------------------------------
(* CacheManager._generate_cache_key *)

\* line 43: keys longer than this are replaced by their hash
MaxKeyLength == 200

Letters == <<"a", "b", "c", "d", "e", "f", "g", "h", "i", "j", "k", "l", "m",
             "n", "o", "p", "q", "r", "s", "t", "u", "v", "w", "x", "y", "z">>
HexDigits == <<"0", "1", "2", "3", "4", "5", "6", "7", "8", "9",
               "a", "b", "c", "d", "e", "f">>

\* the code point of a character: ':' is 58, '_' is 95, 'a'..'z' are 97..122
Ord(ch) ==
    IF ch = ":" THEN 58
    ELSE IF ch = "_" THEN 95
    ELSE 96 + (CHOOSE i \in 1..Len(Letters) : Letters[i] = ch)

\* Python's order on strings (lexicographic by code point)
RECURSIVE StrLess(_, _)
StrLess(s, t) ==
    IF t = <<>> THEN FALSE
    ELSE IF s = <<>> THEN TRUE
    ELSE IF Ord(Head(s)) # Ord(Head(t)) THEN Ord(Head(s)) < Ord(Head(t))
    ELSE StrLess(Tail(s), Tail(t))

\* sorted(kwargs.items()): the (name, value) pairs in the order of the names
RECURSIVE InsertSorted(_, _)
InsertSorted(item, sorted) ==
    IF sorted = <<>> THEN <<item>>
    ELSE IF StrLess(item[1], Head(sorted)[1]) THEN <<item>> \o sorted
    ELSE <<Head(sorted)>> \o InsertSorted(item, Tail(sorted))

RECURSIVE SortedItems(_)
SortedItems(kwargs) ==
    IF kwargs = <<>> THEN <<>>
    ELSE InsertSorted(Head(kwargs), SortedItems(Tail(kwargs)))

\* ":".join(parts)
RECURSIVE Join(_)
Join(parts) ==
    IF parts = <<>> THEN <<>>
    ELSE IF Len(parts) = 1 THEN parts[1]
    ELSE parts[1] \o <<":">> \o Join(Tail(parts))

\* the digest of hashlib.md5: a fixed-width value computed from every
\* character of the string.  The model keeps 15 bits of it, as the polynomial
\* sum of the code points; it is evaluated by halving the string
DigestModulus == 2 ^ 15

RECURSIVE PowMod(_)
PowMod(n) ==
    IF n = 0 THEN 1
    ELSE LET half == PowMod(n \div 2)
             square == (half * half) % DigestModulus
         IN  IF n % 2 = 0 THEN square ELSE (square * 31) % DigestModulus

RECURSIVE Digest(_, _, _)
Digest(string, lo, hi) ==
    IF lo > hi THEN 0
    ELSE IF lo = hi THEN Ord(string[lo])
    ELSE LET mid == (lo + hi) \div 2
         IN  (Digest(string, lo, mid) * PowMod(hi - mid)
              + Digest(string, mid + 1, hi)) % DigestModulus

\* hexdigest(): the digest as hex digits
RECURSIVE Hex(_, _)
Hex(n, digits) ==
    IF digits = 0 THEN <<>>
    ELSE Hex(n \div 16, digits - 1) \o <<HexDigits[(n % 16) + 1]>>

Md5HexDigest(string) == Hex(Digest(string, 1, Len(string)), 4)

\* lines 37-41
KeyString(prefix, args, kwargs) ==
    LET items == SortedItems(kwargs)
    IN  Join(<<prefix>> \o args
             \o [i \in 1..Len(items) |-> items[i][1] \o <<":">> \o items[i][2]])

\* lines 35-46
GenerateCacheKey(prefix, args, kwargs) ==
    LET key_string == KeyString(prefix, args, kwargs)
    IN  IF Len(key_string) > MaxKeyLength
        THEN prefix \o <<":", "h", "a", "s", "h", ":">> \o Md5HexDigest(key_string)
        ELSE key_string

\* explanation_key, lines 179-181
ExplanationKey(question, level, context_hash) ==
    GenerateCacheKey(<<"e", "x", "p", "l", "a", "n", "a", "t", "i", "o", "n">>,
                     <<question, level, context_hash>>, <<>>)

\* document_key, lines 183-185
DocumentKey(document_id, operation) ==
    GenerateCacheKey(<<"d", "o", "c", "u", "m", "e", "n", "t">>,
                     <<document_id, operation>>, <<>>)

\* ---- the inputs explored ----

Filler(n) == [i \in 1..n |-> "x"]

KeyPrefix == <<"d", "o", "c">>

\* "a"; a string that brings "doc:<string>" to exactly MaxKeyLength characters
\* and one that brings it to MaxKeyLength + 1; the latter again after "a:"
ShortArg == <<"a">>
EdgeArg == Filler(MaxKeyLength - Len(KeyPrefix) - 1)
LongArg == Filler(MaxKeyLength - Len(KeyPrefix))
JoinedArg == ShortArg \o <<":">> \o LongArg
ArgStrings == {ShortArg, EdgeArg, LongArg, JoinedArg}

ArgLists == UNION {[1..n -> ArgStrings] : n \in 0..MaxArgs}

\* keyword arguments in the order the caller wrote them
KwJ == <<<<"j">>, <<"v">>>>
KwK == <<<<"k">>, <<"v">>>>
KwLists == {<<>>, <<KwJ>>, <<KwK>>, <<KwJ, KwK>>, <<KwK, KwJ>>}

KeyCalls == [prefix : {KeyPrefix}, args : ArgLists, kwargs : KwLists]

\* two calls of _generate_cache_key
GenerateKeys ==
    /\ keyOutputs = <<>>
    /\ keyOutputs' = [i \in 1..2 |->
          GenerateCacheKey(keyInputs[i].prefix, keyInputs[i].args, keyInputs[i].kwargs)]
    /\ UNCHANGED keyInputs
    /\ UNCHANGED outsideKey

KeyInit ==
    /\ keyInputs \in [1..2 -> KeyCalls]
    /\ keyOutputs = <<>>

\* no key derivation in progress
KeyIdle ==
    /\ keyInputs = <<>>
    /\ keyOutputs = <<>>

-----------------------------------------------------------------------------
(* Context packing: step 4 of query and "Build context" of stream_query *)

\* line 158 / line 261: a partial chunk is added only into more space than this
MinPartialSpace == 200

\* "\n\n---\n\n"
ContextSeparator == <<"\n", "\n", "-", "-", "-", "\n", "\n">>
Ellipsis == <<".", ".", ".">>

\* sep.join(parts)
RECURSIVE JoinWith(_, _)
JoinWith(sep, parts) ==
    IF parts = <<>> THEN <<>>
    ELSE IF Len(parts) = 1 THEN parts[1]
    ELSE parts[1] \o sep \o JoinWith(sep, Tail(parts))

\* content[:n]
Take(content, n) ==
    SubSeq(content, 1, IF n < Len(content) THEN n ELSE Len(content))

\* s.rsplit(' ', 1)[0]: s up to its last space, all of s when it has none
RSplitSpaceKeepAll(s) == s
RSplitSpace(s) ==
    LET spaces == {i \in 1..Len(s) : s[i] = " "}
    IN  IF spaces = {} THEN s
        ELSE SubSeq(s, 1, (CHOOSE i \in spaces : \A j \in spaces : j <= i) - 1)

\* line 144 / line 256
FitsStrictly(current_length, content, max_length) ==
    current_length + Len(content) < max_length
Fits(current_length, content, max_length) ==
    current_length + Len(content) <= max_length

\* line 158 / line 261
MeaningfulSpaceFromThreshold(remaining_space) == remaining_space >= MinPartialSpace
MeaningfulSpace(remaining_space) == remaining_space > MinPartialSpace

\* lines 149-153 and 162-167: the entry of sources_used for a chunk (the entry
\* of a whole chunk has no 'partial' key: FALSE here); the similarity score
\* is copied from the chunk, rounded, and plays no part in the packing
SourceInfo(doc, partial) ==
    [filename |-> doc.metadata.filename,
     chunk_index |-> doc.metadata.chunk_index,
     partial |-> partial]

\* line 159
PartialContent(content, remaining_space) ==
    RSplitSpace(Take(content, remaining_space)) \o Ellipsis

\* line 262
StreamPartialContent(content, remaining_space) ==
    Take(content, remaining_space) \o Ellipsis

\* lines 138-169: the loop of query from chunk i on
RECURSIVE QueryPackLoop(_, _, _, _)
QueryPackLoop(docs, max_length, i, st) ==
    IF i > Len(docs) THEN st
    ELSE LET content == docs[i].content
         IN  IF Fits(st.current_length, content, max_length)
             THEN QueryPackLoop(docs, max_length, i + 1,
                      [context_parts |-> Append(st.context_parts, content),
                       current_length |-> st.current_length + Len(content),
                       sources_used |-> Append(st.sources_used,
                                               SourceInfo(docs[i], FALSE))])
             ELSE LET remaining_space == max_length - st.current_length
                  IN  IF MeaningfulSpace(remaining_space)
                      THEN [context_parts |->
                                Append(st.context_parts,
                                       PartialContent(content, remaining_space)),
                            current_length |-> st.current_length,
                            sources_used |-> Append(st.sources_used,
                                                    SourceInfo(docs[i], TRUE))]
                      ELSE st

\* lines 137-171
QueryPack(docs, max_length) ==
    LET st == QueryPackLoop(docs, max_length, 1,
                  [context_parts |-> <<>>, current_length |-> 0,
                   sources_used |-> <<>>])
    IN  [context_parts |-> st.context_parts,
         current_length |-> st.current_length,
         sources_used |-> st.sources_used,
         context |-> JoinWith(ContextSeparator, st.context_parts)]

\* lines 251-263: the loop of stream_query from chunk i on
RECURSIVE StreamPackLoop(_, _, _, _)
StreamPackLoop(docs, max_length, i, st) ==
    IF i > Len(docs) THEN st
    ELSE LET content == docs[i].content
         IN  IF Fits(st.current_length, content, max_length)
             THEN StreamPackLoop(docs, max_length, i + 1,
                      [context_parts |-> Append(st.context_parts, content),
                       current_length |-> st.current_length + Len(content)])
             ELSE LET remaining_space == max_length - st.current_length
                  IN  IF MeaningfulSpace(remaining_space)
                      THEN [context_parts |->
                                Append(st.context_parts,
                                       StreamPartialContent(content, remaining_space)),
                            current_length |-> st.current_length]
                      ELSE st

\* lines 250-265
StreamPack(docs, max_length) ==
    LET st == StreamPackLoop(docs, max_length, 1,
                  [context_parts |-> <<>>, current_length |-> 0])
    IN  [context_parts |-> st.context_parts,
         current_length |-> st.current_length,
         context |-> JoinWith(ContextSeparator, st.context_parts)]

\* ---- the retrieval results explored ----

\* chunk text as the ingestion leaves it (utils/text_processing.py: clean_text
\* turns every run of whitespace into one space, chunk_text strips the ends):
\* words of seven letters,
Words(n) == [i \in 1..n |-> IF i % 8 = 0 THEN " " ELSE "x"]
\* and one long token after a first part of `first` characters
LongTail(first, n) == [i \in 1..n |-> IF i = first + 1 THEN " " ELSE "x"]

ChunkFile == "notes.txt"

Chunk(content, index) ==
    [content |-> content,
     metadata |-> [filename |-> ChunkFile, chunk_index |-> index]]

ChunkA == Chunk(Words(MinPartialSpace \div 2), 0)
ChunkB == Chunk(Words(MinPartialSpace \div 2), 1)
ChunkC == Chunk(Words(MinPartialSpace \div 4), 2)
ChunkG == Chunk(LongTail(MinPartialSpace + 4, MinPartialSpace + 50), 3)
ChunkE == Chunk(Filler(MinPartialSpace + 50), 4)
ChunkF == Chunk(Words(MinPartialSpace \div 20), 5)
Chunks == {ChunkA, ChunkB, ChunkC, ChunkG, ChunkE, ChunkF}

\* similarity_search returns between 1 and n_results chunks here (an empty
\* result leaves query and stream_query before the packing, lines 126, 239)
DocLists == UNION {[1..n -> Chunks] : n \in 1..MaxChunks}

\* max_context_length: below one chunk pair, and MinPartialSpace, one more
\* and 20 more than MinPartialSpace above the length of ChunkC
PackLimits ==
    {MinPartialSpace - 20,
     Len(ChunkC.content) + MinPartialSpace,
     Len(ChunkC.content) + MinPartialSpace + 1,
     Len(ChunkC.content) + MinPartialSpace + 20}

\* step 4 of query on the retrieved chunks
QueryBuildContext ==
    /\ relevant_docs # <<>>
    /\ queryPacked = <<>>
    /\ queryPacked' = <<QueryPack(relevant_docs, max_context_length)>>
    /\ UNCHANGED <<relevant_docs, max_context_length, streamPacked>>
    /\ UNCHANGED outsidePack

\* "Build context" of stream_query on the retrieved chunks
StreamBuildContext ==
    /\ relevant_docs # <<>>
    /\ streamPacked = <<>>
    /\ streamPacked' = <<StreamPack(relevant_docs, max_context_length)>>
    /\ UNCHANGED <<relevant_docs, max_context_length, queryPacked>>
    /\ UNCHANGED outsidePack

PackInit ==
    /\ relevant_docs \in DocLists
    /\ max_context_length \in PackLimits
    /\ queryPacked = <<>>
    /\ streamPacked = <<>>

\* no packing in progress
PackIdle ==
    /\ relevant_docs = <<>>
    /\ max_context_length = 0
    /\ queryPacked = <<>>
    /\ streamPacked = <<>>

-----------------------------------------------------------------------------
(* One CacheManager with its statistics and its failures (utils/cache.py) *)

\* what can go wrong in a call on the Redis instance: nothing, the command
\* raising (connection lost, timeout), pickle.loads raising on the reply
Faults == {"none", "backend", "loads"}
CommandFaults == {"none", "backend"}

\* the dict objects of the program are held by reference
Ref(n) == ToString(n)

Alloc(hp, obj) ==
    LET ref == Ref(Cardinality(DOMAIN hp) + 1)
    IN  [heap |-> Put(hp, ref, obj), ref |-> ref]

\* self._cache_stats[field] += 1
Bump(stats, field) == [stats EXCEPT ![field] = @ + 1]

\* get, lines 72-75: the handler of any exception
GetExceptReraise(w) == [w |-> w, ret |-> NoneVal, raised |-> TRUE]
GetExcept(w) ==
    [w |-> [w EXCEPT !.stats = Bump(@, "misses")], ret |-> NoneVal, raised |-> FALSE]

\* get, lines 48-75; w is the state of the manager and the heap
ManagerGet(client, w, key, fault, t) ==
    IF client
    THEN IF fault = "backend" THEN GetExcept(w)
         ELSE LET r == RedisCmdGet(w.redis, key, t)
                  seen == [w EXCEPT !.redis = r.store]
              IN  IF r.reply # Nil
                  THEN LET counted == [seen EXCEPT !.stats = Bump(@, "hits")]
                       IN  IF fault = "loads" THEN GetExcept(counted)
                           ELSE LET a == Alloc(counted.heap, Unpickle(r.reply))
                                IN  [w |-> [counted EXCEPT !.heap = a.heap],
                                     ret |-> a.ref, raised |-> FALSE]
                  ELSE [w |-> [seen EXCEPT !.stats = Bump(@, "misses")],
                        ret |-> NoneVal, raised |-> FALSE]
    ELSE LET m == MemGet(w.mem, key, t)
         IN  [w |-> [w EXCEPT !.mem = m.cache,
                              !.stats = Bump(@, IF m.ret # NoneVal
                                                THEN "hits" ELSE "misses")],
              ret |-> m.ret, raised |-> FALSE]

\* set, lines 103-105
SetExcept(w) == [w |-> w, ret |-> FALSE, raised |-> FALSE]

\* set, lines 77-105; the value is the object behind ref
ManagerSet(client, w, key, ref, ttl, fault, t) ==
    IF client
    THEN IF fault # "none" THEN SetExcept(w)
         ELSE LET r == RedisCmdSetex(w.redis, key, EffectiveTTL(ttl),
                                     Pickle(w.heap[ref]), t)
              IN  IF r.error THEN SetExcept([w EXCEPT !.redis = r.store])
                  ELSE [w |-> [w EXCEPT !.redis = r.store,
                                        !.stats = Bump(@, "sets")],
                        ret |-> TRUE, raised |-> FALSE]
    ELSE LET m == MemSet(w.mem, key, ref, ttl, t)
         IN  [w |-> [w EXCEPT !.mem = m.cache, !.stats = Bump(@, "sets")],
              ret |-> TRUE, raised |-> FALSE]

\* delete, lines 107-120
ManagerDelete(client, w, key, fault, t) ==
    IF client
    THEN IF fault # "none" THEN [w |-> w, ret |-> FALSE, raised |-> FALSE]
         ELSE LET r == RedisDelete(w.redis, key, t)
              IN  [w |-> [w EXCEPT !.redis = r.store], ret |-> r.ret, raised |-> FALSE]
    ELSE LET m == MemDelete(w.mem, key)
         IN  [w |-> [w EXCEPT !.mem = m.cache], ret |-> m.ret, raised |-> FALSE]

\* clear_pattern, lines 122-151
ManagerClearPattern(client, w, pattern, fault, t) ==
    IF client
    THEN IF fault # "none" THEN [w |-> w, ret |-> 0, raised |-> FALSE]
         ELSE LET r == RedisClearPattern(w.redis, pattern, t)
              IN  [w |-> [w EXCEPT !.redis = r.store], ret |-> r.ret, raised |-> FALSE]
    ELSE LET m == MemClearPattern(w.mem, pattern)
         IN  [w |-> [w EXCEPT !.mem = m.cache], ret |-> m.ret, raised |-> FALSE]

\* get_stats, lines 169-175: the counters are copied into the mapping returned
ManagerGetStats(client, w) ==
    [cache_type |-> IF client THEN "redis" ELSE "memory",
     stats |-> w.stats,
     memory_cache_size |-> IF ~client THEN Cardinality(DOMAIN w.mem) ELSE 0]

-----------------------------------------------------------------------------
(* RAGPipeline.query and the other cache users of rag/pipeline.py *)

\* query's default max_context_length (line 78)
DefaultMaxContextLength == 3000

\* line 129
FallbackAnswer == "I couldn't find any relevant information to answer your question. Please try uploading a document or asking a different question."

\* the questions asked, at ExplanationLevel.CHILD and with document_id = None
Questions == {<<"w", "h", "y">>, <<"h", "o", "w">>}
LevelValue == <<"c", "h", "i", "l", "d">>
General == <<"g", "e", "n", "e", "r", "a", "l">>

\* the one document ingested and the suffix of its processing key (line 67)
DocumentId == <<"d", "o", "c", "x">>
Processing == <<"p", "r", "o", "c", "e", "s", "s", "i", "n", "g">>

\* lines 98-100: md5(f"{question}_{document_id or 'general'}").hexdigest()[:8]
ContextHash(question) ==
    Take(Md5HexDigest(question \o <<"_">> \o General), 8)

\* lines 102-104, for each of the questions
QueryCacheKeys ==
    [question \in Questions |->
        ExplanationKey(question, LevelValue, ContextHash(question))]

QueryCacheKey(question) == QueryCacheKeys[question]

ProcessingKey == DocumentKey(DocumentId, Processing)

ServiceKeys == {QueryCacheKey(q) : q \in Questions} \cup {ProcessingKey}

\* line 353: f"*{document_id}*"
DocumentPattern == <<"*">> \o DocumentId \o <<"*">>

\* what similarity_search returns once the document is in the vector store
RetrievedDocs == <<ChunkC, ChunkF>>

\* the n-th response of llm_provider.generate
Response(n) == "response " \o ToString(n)

\* lines 107 and 201: the use_cache flag guards the read and the write
ReadsCacheAlways(use_cache) == TRUE
ReadsCache(use_cache) == use_cache
WritesCache(use_cache) == use_cache

\* line 126: if not relevant_docs
NoResultsNever(docs) == FALSE
NoResults(docs) == docs = <<>>

\* lines 128-135
FallbackResult ==
    [kind |-> "query", answer |-> FallbackAnswer, level |-> LevelValue,
     source_documents |-> 0, cached |-> FALSE, sources |-> <<>>]

\* lines 185-198 (context_used and query_metadata, which carry the context
\* text and the time of the call, are left out)
FreshResult(response, docs, sources_used) ==
    [kind |-> "query", answer |-> response, level |-> LevelValue,
     source_documents |-> Len(docs), cached |-> FALSE, sources |-> sources_used]

\* line 110: cached_result['cached'] = True, on the object get returned
ServeHitUnmarked(hp, ref) == hp
ServeHit(hp, ref) == [hp EXCEPT ![ref].cached = TRUE]

\* the document scopes of a query: None, or a document id; the caller may
\* pass any string, also the word the code uses for "no document"
NoDocument == <<>>
OtherDocumentId == <<"d", "o", "c", "y">>
DocumentIds == {DocumentId, OtherDocumentId}
Scopes == {NoDocument, General} \cup DocumentIds

\* lines 98-100: md5(f"{question}_{document_id or 'general'}").hexdigest()[:8]
ScopedContextHash(question, document_id) ==
    Take(Md5HexDigest(question \o <<"_">>
                      \o (IF document_id = NoDocument THEN General ELSE document_id)),
         8)

\* lines 102-104, for each question and scope
ScopedCacheKeys ==
    [question \in Questions, document_id \in Scopes |->
        ExplanationKey(question, LevelValue,
                       ScopedContextHash(question, document_id))]

ScopedCacheKey(question, document_id) == ScopedCacheKeys[question, document_id]

\* what can go wrong in a collaborator call of query: nothing, similarity_search
\* raising (line 119), generate raising (line 178)
CollaboratorFaults == {"none", "retrieval", "generation"}

\* lines 94 and 207-209: an exception of a collaborator call leaves the try
\* block for the handler, which raises the one exception of query
RaisesSwallowed(fail, call) == FALSE
Raises(fail, call) == fail = call

\* query, lines 94-209, on what similarity_search returns for it; gen is the
\* number of generations made before
QueryRun(client, w, question, document_id, use_cache, getFault, setFault, fail, relevant_found, gen, t) ==
    LET cache_key == ScopedCacheKey(question, document_id)
        read == ReadsCache(use_cache)
        g == IF read THEN ManagerGet(client, w, cache_key, getFault, t)
             ELSE [w |-> w, ret |-> NoneVal, raised |-> FALSE]
        base == [w |-> g.w, ret |-> NoneVal, raised |-> FALSE, hit |-> FALSE,
                 gets |-> IF read THEN 1 ELSE 0, setsTried |-> 0, setOk |-> FALSE,
                 retrieved |-> 0, generated |-> 0]
    IN  IF g.raised THEN [base EXCEPT !.raised = TRUE]
        ELSE IF g.ret # NoneVal
        THEN [base EXCEPT !.w = [g.w EXCEPT !.heap = ServeHit(@, g.ret)],
                          !.ret = g.ret, !.hit = TRUE]
        ELSE IF Raises(fail, "retrieval")
        THEN [base EXCEPT !.raised = TRUE, !.retrieved = 1]
        ELSE IF NoResults(relevant_found)
        THEN LET a == Alloc(g.w.heap, FallbackResult)
             IN  [base EXCEPT !.w = [g.w EXCEPT !.heap = a.heap],
                              !.ret = a.ref, !.retrieved = 1]
        ELSE IF Raises(fail, "generation")
        THEN [base EXCEPT !.raised = TRUE, !.retrieved = 1, !.generated = 1]
        ELSE LET packed == QueryPack(relevant_found, DefaultMaxContextLength)
                 a == Alloc(g.w.heap,
                            FreshResult(Response(gen + 1), relevant_found,
                                        packed.sources_used))
                 made == [g.w EXCEPT !.heap = a.heap]
                 st == IF WritesCache(use_cache)
                       THEN ManagerSet(client, made, cache_key, a.ref,
                                       NoTTL, setFault, t)
                       ELSE [w |-> made, ret |-> FALSE, raised |-> FALSE]
             IN  [base EXCEPT !.w = st.w, !.ret = a.ref,
                              !.raised = st.raised,
                              !.setsTried = IF WritesCache(use_cache)
                                            THEN 1 ELSE 0,
                              !.setOk = st.ret,
                              !.retrieved = 1, !.generated = 1]

\* query without a document scope and with collaborators that do not fail
QueryCall(client, w, question, use_cache, getFault, setFault, isIndexed, gen, t) ==
    QueryRun(client, w, question, NoDocument, use_cache, getFault, setFault,
             "none", IF isIndexed THEN RetrievedDocs ELSE <<>>, gen, t)

\* ---- the state of the manager as one value, and the calls as actions ----

World == [mem |-> memory_cache, redis |-> redis_store, stats |-> cache_stats,
          heap |-> heap]

SetWorld(w) ==
    /\ memory_cache' = w.mem
    /\ redis_store' = w.redis
    /\ cache_stats' = w.stats
    /\ heap' = w.heap

\* an unexpired entry under key, on the backend in use
LiveEntry(key) ==
    IF redis_client THEN key \in DOMAIN RedisLive(redis_store, now)
    ELSE key \in DOMAIN memory_cache /\ memory_cache[key].expires > now

\* faults happen on the Redis instance only; loads fails on a reply only
FaultPossible(fault, key) ==
    \/ fault = "none"
    \/ fault = "backend" /\ redis_client
    \/ fault = "loads" /\ redis_client /\ LiveEntry(key)

NoOutcome ==
    [op |-> "none", key |-> <<>>, use_cache |-> FALSE, fault |-> "none",
     setFault |-> "none", live |-> FALSE, ret |-> NoneVal, ok |-> FALSE,
     count |-> 0, raised |-> FALSE, hit |-> FALSE, gets |-> 0,
     setsTried |-> 0, retrieved |-> 0, generated |-> 0,
     document_id |-> NoDocument, fail |-> "none"]

Query(question, use_cache, getFault, setFault) ==
    LET key == QueryCacheKey(question)
        q == QueryCall(redis_client, World, question, use_cache, getFault,
                       setFault, indexed, generations, now)
    IN  /\ calls < MaxCalls
        /\ use_cache \/ getFault = "none"
        /\ FaultPossible(getFault, key)
        /\ setFault = "none" \/ (redis_client /\ q.setsTried = 1)
        /\ SetWorld(q.w)
        /\ retrievals' = retrievals + q.retrieved
        /\ generations' = generations + q.generated
        /\ calls' = calls + 1
        /\ outcome' = [NoOutcome EXCEPT !.op = "query", !.key = key,
                          !.use_cache = use_cache, !.fault = getFault,
                          !.setFault = setFault, !.live = LiveEntry(key),
                          !.ret = q.ret, !.ok = q.setOk, !.raised = q.raised,
                          !.hit = q.hit, !.gets = q.gets,
                          !.setsTried = q.setsTried, !.retrieved = q.retrieved,
                          !.generated = q.generated]
        /\ UNCHANGED <<now, redis_client, indexed, stats_view>>
        /\ UNCHANGED outsideService

\* process_document, lines 53-69: the chunks enter the vector store and the
\* processing status is cached for a day
ProcessingResults ==
    [kind |-> "processing", document_id |-> DocumentId,
     processing_status |-> "completed"]

DayTTL == <<86400>>

ProcessDocument(fault) ==
    LET a == Alloc(heap, ProcessingResults)
        st == ManagerSet(redis_client, [World EXCEPT !.heap = a.heap],
                         ProcessingKey, a.ref, DayTTL, fault, now)
    IN  /\ calls < MaxCalls
        /\ FaultPossible(fault, ProcessingKey)
        /\ SetWorld(st.w)
        /\ indexed' = TRUE
        /\ calls' = calls + 1
        /\ outcome' = [NoOutcome EXCEPT !.op = "set", !.key = ProcessingKey,
                          !.fault = fault, !.live = LiveEntry(ProcessingKey),
                          !.ret = a.ref, !.ok = st.ret, !.raised = st.raised,
                          !.setsTried = 1]
        /\ UNCHANGED <<now, redis_client, retrievals, generations, stats_view>>
        /\ UNCHANGED outsideService

\* get_document_info, lines 318-323: the read of the processing status
GetDocumentInfo(fault) ==
    LET g == ManagerGet(redis_client, World, ProcessingKey, fault, now)
    IN  /\ calls < MaxCalls
        /\ FaultPossible(fault, ProcessingKey)
        /\ SetWorld(g.w)
        /\ calls' = calls + 1
        /\ outcome' = [NoOutcome EXCEPT !.op = "get", !.key = ProcessingKey,
                          !.fault = fault, !.live = LiveEntry(ProcessingKey),
                          !.ret = g.ret, !.raised = g.raised,
                          !.hit = g.ret # NoneVal, !.gets = 1]
        /\ UNCHANGED <<now, redis_client, indexed, retrievals, generations,
                       stats_view>>
        /\ UNCHANGED outsideService

\* delete_document, line 353
DeleteDocument(fault) ==
    LET c == ManagerClearPattern(redis_client, World, DocumentPattern, fault, now)
    IN  /\ calls < MaxCalls
        /\ FaultPossible(fault, ProcessingKey)
        /\ SetWorld(c.w)
        /\ calls' = calls + 1
        /\ outcome' = [NoOutcome EXCEPT !.op = "clear_pattern",
                          !.key = DocumentPattern, !.fault = fault,
                          !.live = LiveEntry(ProcessingKey),
                          !.count = c.ret, !.raised = c.raised]
        /\ UNCHANGED <<now, redis_client, indexed, retrievals, generations,
                       stats_view>>
        /\ UNCHANGED outsideService

\* cache_manager.delete(key)
DeleteKey(key, fault) ==
    LET d == ManagerDelete(redis_client, World, key, fault, now)
    IN  /\ calls < MaxCalls
        /\ FaultPossible(fault, key)
        /\ SetWorld(d.w)
        /\ calls' = calls + 1
        /\ outcome' = [NoOutcome EXCEPT !.op = "delete", !.key = key,
                          !.fault = fault, !.live = LiveEntry(key),
                          !.ok = d.ret, !.raised = d.raised]
        /\ UNCHANGED <<now, redis_client, indexed, retrievals, generations,
                       stats_view>>
        /\ UNCHANGED outsideService

\* get_system_stats, line 375
GetStats ==
    /\ calls < MaxCalls
    /\ stats_view' = <<ManagerGetStats(redis_client, World)>>
    /\ calls' = calls + 1
    /\ outcome' = [NoOutcome EXCEPT !.op = "get_stats"]
    /\ UNCHANGED <<now, redis_client, memory_cache, redis_store, cache_stats,
                   heap, indexed, retrievals, generations>>
    /\ UNCHANGED outsideService

\* the caller of get_stats writes into the mapping it was given
MutateStatsView(field) ==
    /\ calls < MaxCalls
    /\ stats_view # <<>>
    /\ stats_view' = <<[stats_view[1] EXCEPT !.stats = Bump(@, field)]>>
    /\ calls' = calls + 1
    /\ outcome' = [NoOutcome EXCEPT !.op = "mutate_stats"]
    /\ UNCHANGED <<now, redis_client, memory_cache, redis_store, cache_stats,
                   heap, indexed, retrievals, generations>>
    /\ UNCHANGED outsideService

\* half a CACHE_TTL passes between two calls
ServiceTick ==
    /\ now < MaxTicks * (CACHE_TTL \div 2)
    /\ now' = now + CACHE_TTL \div 2
    /\ UNCHANGED <<memory_cache, redis_store>>
    /\ UNCHANGED svcVars
    /\ UNCHANGED outsideService

\* CacheManager.__init__ (lines 16-33) with or without REDIS_URL, an empty
\* vector store
ServiceStart ==
    /\ cache_stats = [hits |-> 0, misses |-> 0, sets |-> 0]
    /\ heap = <<>>
    /\ indexed = FALSE
    /\ retrievals = 0
    /\ generations = 0
    /\ calls = 0
    /\ outcome = NoOutcome
    /\ stats_view = <<>>

ServiceInit ==
    /\ redis_client \in BOOLEAN
    /\ ServiceStart

\* no pipeline call in progress
ServiceIdle ==
    /\ redis_client = FALSE
    /\ ServiceStart

-----------------------------------------------------------------------------
(* The documents of the pipeline: process_document, query with a document  *)
(* scope, get_document_info and delete_document (rag/pipeline.py) on the   *)
(* upload directory, the collection and the cache                          *)

\* the question asked about the documents
ScopedQuestions == {<<"w", "h", "y">>}

\* document_key(document_id, "processing") of each document (lines 67, 320)
ProcessingKeys == [d \in DocumentIds |-> DocumentKey(d, Processing)]

\* line 353: f"*{document_id}*"
DocumentPatternOf(document_id) == <<"*">> \o document_id \o <<"*">>

\* the chunks process_document stores for each document (lines 43-54)
DocumentChunks ==
    [d \in DocumentIds |-> IF d = DocumentId THEN <<ChunkC>> ELSE <<ChunkF>>]

\* similarity_search (vector_store.py lines 75-112) on the collection holding
\* the chunks of the documents in stored: where = filter_metadata keeps the
\* chunks whose document_id is the one asked for
SimilaritySearch(document_id, stored) ==
    IF document_id = NoDocument
    THEN (IF DocumentId \in stored THEN DocumentChunks[DocumentId] ELSE <<>>)
         \o (IF OtherDocumentId \in stored
             THEN DocumentChunks[OtherDocumentId] ELSE <<>>)
    ELSE IF document_id \in stored THEN DocumentChunks[document_id]
    ELSE <<>>

\* lines 57-66
ProcessingResultsOf(document_id) ==
    [kind |-> "processing", document_id |-> document_id,
     processing_status |-> "completed"]

\* delete_file (file_manager.py lines 124-137): the file is unlinked if it is
\* there, and the call says whether it was
DeleteFileKept(fs, filename) == [files |-> fs, ret |-> filename \in fs]
DeleteFile(fs, filename) == [files |-> fs \ {filename}, ret |-> filename \in fs]

\* delete_document, lines 344-364
DeleteDocumentCall(client, w, fs, document_id, fault, t) ==
    LET file_deleted == DeleteFile(fs, document_id)
        c == ManagerClearPattern(client, w, DocumentPatternOf(document_id),
                                 fault, t)
    IN  [w |-> c.w, files |-> file_deleted.files, ret |-> file_deleted.ret,
         count |-> c.ret]

\* lines 333-338: what get_document_info builds for a file that is there
DocumentInfo(document_id) ==
    [kind |-> "info", document_id |-> document_id, status |-> "processed"]

\* get_document_info, lines 315-342, on a cache that answers; get_file_info
\* (file_manager.py lines 105-118) is None when the file is not there
GetDocumentInfoCall(client, w, fs, document_id, t) ==
    LET g == ManagerGet(client, w, ProcessingKeys[document_id], "none", t)
    IN  IF g.ret # NoneVal THEN [w |-> g.w, ret |-> g.ret, hit |-> TRUE]
        ELSE IF document_id \notin fs
        THEN [w |-> g.w, ret |-> NoneVal, hit |-> FALSE]
        ELSE LET a == Alloc(g.w.heap, DocumentInfo(document_id))
             IN  [w |-> [g.w EXCEPT !.heap = a.heap], ret |-> a.ref,
                  hit |-> FALSE]

\* process_document, lines 25-69: save_file gives the document a file name
\* not used before, the chunks enter the collection and the processing status
\* is cached for a day
ProcessDocumentAs(document_id) ==
    LET key == ProcessingKeys[document_id]
        a == Alloc(heap, ProcessingResultsOf(document_id))
        st == ManagerSet(redis_client, [World EXCEPT !.heap = a.heap],
                         key, a.ref, DayTTL, "none", now)
    IN  /\ calls < MaxDocCalls
        /\ document_id \notin chunks
        /\ SetWorld(st.w)
        /\ files' = files \cup {document_id}
        /\ chunks' = chunks \cup {document_id}
        /\ calls' = calls + 1
        /\ outcome' = [NoOutcome EXCEPT !.op = "process_document", !.key = key,
                          !.document_id = document_id, !.ret = a.ref,
                          !.ok = st.ret, !.setsTried = 1]
        /\ UNCHANGED <<now, redis_client, indexed, retrievals, generations,
                       stats_view, madeFor, stale>>
        /\ UNCHANGED outsideDocuments

\* query, lines 73-209, with a document_id argument and collaborators that
\* may fail
QueryScoped(question, document_id, use_cache, fail) ==
    LET key == ScopedCacheKey(question, document_id)
        q == QueryRun(redis_client, World, question, document_id, use_cache,
                      "none", "none", fail,
                      SimilaritySearch(document_id, chunks), generations, now)
    IN  /\ calls < MaxDocCalls
        /\ SetWorld(q.w)
        /\ retrievals' = retrievals + q.retrieved
        /\ generations' = generations + q.generated
        /\ calls' = calls + 1
        /\ outcome' = [NoOutcome EXCEPT !.op = "query", !.key = key,
                          !.use_cache = use_cache, !.live = LiveEntry(key),
                          !.ret = q.ret, !.ok = q.setOk, !.raised = q.raised,
                          !.hit = q.hit, !.gets = q.gets,
                          !.setsTried = q.setsTried, !.retrieved = q.retrieved,
                          !.generated = q.generated,
                          !.document_id = document_id, !.fail = fail]
        /\ madeFor' = IF q.generated = 1 /\ ~q.raised
                      THEN Put(madeFor, Response(generations + 1), document_id)
                      ELSE madeFor
        /\ UNCHANGED <<now, redis_client, indexed, stats_view, files, chunks,
                       stale>>
        /\ UNCHANGED outsideDocuments

\* get_document_info(document_id)
GetDocumentInfoOf(document_id) ==
    LET key == ProcessingKeys[document_id]
        g == GetDocumentInfoCall(redis_client, World, files, document_id, now)
    IN  /\ calls < MaxDocCalls
        /\ SetWorld(g.w)
        /\ calls' = calls + 1
        /\ outcome' = [NoOutcome EXCEPT !.op = "get_document_info",
                          !.key = key, !.live = LiveEntry(key),
                          !.document_id = document_id, !.ret = g.ret,
                          !.hit = g.hit, !.gets = 1]
        /\ UNCHANGED <<now, redis_client, indexed, retrievals, generations,
                       stats_view>>
        /\ UNCHANGED docVars
        /\ UNCHANGED outsideDocuments

\* delete_document(document_id)
DeleteDocumentOf(document_id, fault) ==
    LET d == DeleteDocumentCall(redis_client, World, files, document_id, fault,
                                now)
    IN  /\ calls < MaxDocCalls
        /\ fault = "none" \/ redis_client
        /\ SetWorld(d.w)
        /\ files' = d.files
        /\ calls' = calls + 1
        /\ outcome' = [NoOutcome EXCEPT !.op = "delete_document",
                          !.key = DocumentPatternOf(document_id),
                          !.live = LiveEntry(ProcessingKeys[document_id]),
                          !.document_id = document_id, !.fault = fault,
                          !.ok = d.ret, !.count = d.count]
        /\ stale' = stale \cup {a \in DOMAIN madeFor : madeFor[a] = document_id}
        /\ UNCHANGED <<now, redis_client, indexed, retrievals, generations,
                       stats_view, chunks, madeFor>>
        /\ UNCHANGED outsideDocuments

\* an empty upload directory and an empty collection
DocumentsIdle ==
    /\ files = {}
    /\ chunks = {}
    /\ madeFor = <<>>
    /\ stale = {}

-----------------------------------------------------------------------------
(* stream_query (rag/pipeline.py lines 211-313): an async generator, which *)
(* runs from one yield to the next each time its consumer asks for the     *)
(* next frame; the request that consumes it passes dispatch                *)

StreamPath == <<"explain", "stream">>

\* what llm_provider.stream_generate may yield
FragmentTexts == {"Hello", " world"}
FragmentLists == UNION {[1..n -> FragmentTexts] : n \in 0..MaxFragments}

\* the collaborator call that raises: none, similarity_search (line 232), or
\* stream_generate once it has yielded `after` fragments (line 283)
NoStreamFault == [at |-> "none", after |-> 0]
StreamFaults(frags) ==
    {NoStreamFault, [at |-> "retrieval", after |-> 0]}
        \cup {[at |-> "generation", after |-> k] : k \in 0..Len(frags)}

NoContextText == "I couldn't find any relevant information to answer your question."

\* lines 240-247
NoContextFrame ==
    [chunk |-> NoContextText,
     metadata |-> [level |-> LevelValue, source_documents |-> 0,
                   status |-> "no_context"]]

\* lines 271-279
StartedFrame(source_documents, context_length) ==
    [chunk |-> "",
     metadata |-> [level |-> LevelValue, source_documents |-> source_documents,
                   context_length |-> context_length,
                   status |-> "streaming_started"]]

\* lines 285-292
StreamingFrameFromZero(chunk, chunk_number) ==
    [chunk |-> chunk,
     metadata |-> [level |-> LevelValue, chunk_number |-> chunk_number - 1,
                   status |-> "streaming"]]
StreamingFrame(chunk, chunk_number) ==
    [chunk |-> chunk,
     metadata |-> [level |-> LevelValue, chunk_number |-> chunk_number,
                   status |-> "streaming"]]

\* lines 295-302
CompletedFrame(total_chunks) ==
    [chunk |-> "",
     metadata |-> [level |-> LevelValue, total_chunks |-> total_chunks,
                   status |-> "completed"]]

\* lines 306-313
ErrorFrame(error) ==
    [chunk |-> "",
     metadata |-> [level |-> LevelValue, status |-> "error", error |-> error]]

\* the generator suspended at a yield: the frame is out and the position kept
Yield(s, frame, pc) == [s EXCEPT !.frames = Append(@, frame), !.pc = pc]

\* lines 304-313: an exception of a collaborator call is caught and the error
\* frame is yielded
OnExceptionSilent(s, error) == [s EXCEPT !.pc = "done"]
OnException(s, error) == Yield(s, ErrorFrame(error), "error")

\* one resumption of the generator, from where it stands to its next yield or
\* to its end: s holds its position, the frames it has yielded, chunk_count,
\* and the collaborator calls this resumption makes
StreamQueryResume(s, relevant, frags, fault, max_length) ==
    IF s.pc = "created"
    THEN LET r == [s EXCEPT !.retrieved = 1]
         IN  IF fault.at = "retrieval" THEN OnException(r, "search error")
             ELSE IF relevant = <<>> THEN Yield(r, NoContextFrame, "no_context")
             ELSE Yield(r, StartedFrame(Len(relevant),
                                        Len(StreamPack(relevant, max_length).context)),
                        "streaming_started")
    ELSE IF s.pc \in {"streaming_started", "streaming"}
    THEN LET g == [s EXCEPT !.generated =
                                IF s.pc = "streaming_started" THEN 1 ELSE 0]
         IN  IF fault.at = "generation" /\ fault.after = s.chunk_count
             THEN OnException(g, "generation error")
             ELSE IF s.chunk_count < Len(frags)
             THEN Yield([g EXCEPT !.chunk_count = @ + 1],
                        StreamingFrame(frags[s.chunk_count + 1],
                                       s.chunk_count + 1),
                        "streaming")
             ELSE Yield(g, CompletedFrame(s.chunk_count), "completed")
    ELSE [s EXCEPT !.pc = "done"]

\* stream_query holds no call on self.cache_manager: the cache after a
\* resumption is the cache before it
StreamCacheWritten(client, w, question, t) ==
    LET a == Alloc(w.heap, FallbackResult)
    IN  ManagerSet(client, [w EXCEPT !.heap = a.heap], QueryCacheKey(question),
                   a.ref, NoTTL, "none", t).w
StreamCache(client, w, question, t) == w

\* middleware.py lines 64-70: the finally block of dispatch, however the
\* downstream call of the streaming request terminated
StreamFinallyOnReturnOnly(c, how) ==
    /\ downstream' = [downstream EXCEPT ![c] = @ - 1]
    /\ concurrent_requests' =
         IF how = "return" THEN [concurrent_requests EXCEPT ![c] = @ - 1]
         ELSE concurrent_requests
    /\ terminated' = [terminated EXCEPT ![c] = @ + 1]
StreamFinally(c, how) ==
    /\ downstream' = [downstream EXCEPT ![c] = @ - 1]
    /\ concurrent_requests' = [concurrent_requests EXCEPT ![c] = @ - 1]
    /\ terminated' = [terminated EXCEPT ![c] = @ + 1]

\* the locals of the generator as one value
StreamState ==
    [pc |-> stream_pc, frames |-> frames, chunk_count |-> chunk_count,
     retrieved |-> 0, generated |-> 0]

\* dispatch (middleware.py lines 24-66) admits the streaming request of
\* client c; downstream, stream_query is called, which creates the generator
\* and runs none of its body
StreamDispatch(c, question, frags, fault) ==
    /\ stream_pc = "idle"
    /\ AdmissionCheck(CleanOld(requests[c], now), concurrent_requests[c])
           = Forwarded
    /\ Admit(c, StreamPath, now)
    /\ stream_pc' = "created"
    /\ stream_client' = <<c>>
    /\ stream_question' = question
    /\ fragments' = frags
    /\ stream_fault' = fault
    /\ UNCHANGED <<frames, stream_relevant, chunk_count, stream_generations,
                   connected, stream_end>>
    /\ UNCHANGED <<RATE_LIMIT_PER_MINUTE, MAX_CONCURRENT_REQUESTS, now, terminated>>
    /\ UNCHANGED <<memory_cache, redis_store>>
    /\ UNCHANGED svcVars
    /\ UNCHANGED outsideStream

\* the consumer asks for the next frame while the caller is connected: the
\* generator runs to its next yield, or to its end
Pull ==
    /\ stream_pc \notin {"idle", "done"}
    /\ connected
    /\ LET relevant == IF stream_pc = "created"
                       THEN (IF indexed THEN RetrievedDocs ELSE <<>>)
                       ELSE stream_relevant
           s == StreamQueryResume(StreamState, relevant, fragments,
                                  stream_fault, DefaultMaxContextLength)
       IN  /\ stream_pc' = s.pc
           /\ frames' = s.frames
           /\ chunk_count' = s.chunk_count
           /\ stream_relevant' =
                IF stream_pc = "created" /\ stream_fault.at # "retrieval"
                THEN relevant ELSE stream_relevant
           /\ retrievals' = retrievals + s.retrieved
           /\ stream_generations' = stream_generations + s.generated
    /\ SetWorld(StreamCache(redis_client, World, stream_question, now))
    /\ UNCHANGED <<stream_client, stream_question, fragments, stream_fault,
                   connected, stream_end>>
    /\ UNCHANGED <<now, redis_client, indexed, generations, calls, outcome,
                   stats_view>>
    /\ UNCHANGED admState
    /\ UNCHANGED outsideStream

\* the caller goes away while the response is in progress; the consumer asks
\* the generator for nothing more
Disconnect ==
    /\ stream_pc \notin {"idle", "done"}
    /\ connected
    /\ connected' = FALSE
    /\ UNCHANGED <<stream_pc, stream_client, stream_question, fragments,
                   stream_fault, frames, stream_relevant, chunk_count,
                   stream_generations, stream_end>>
    /\ UNCHANGED admVars
    /\ UNCHANGED <<memory_cache, redis_store>>
    /\ UNCHANGED svcVars
    /\ UNCHANGED outsideStream

\* middleware.py lines 66-70: the downstream call of the streaming request
\* terminates: it returns its response, at the latest when the generator is
\* exhausted, or it is cancelled once the caller is gone
StreamTerminations == {"return", "cancel"}
StreamFinish(c, how) ==
    /\ stream_client = <<c>>
    /\ downstream[c] > 0
    /\ how = "cancel" => ~connected
    /\ StreamFinally(c, how)
    /\ stream_end' = <<how>>
    /\ UNCHANGED <<RATE_LIMIT_PER_MINUTE, MAX_CONCURRENT_REQUESTS, now, requests,
                   healthDownstream, log>>
    /\ UNCHANGED <<memory_cache, redis_store>>
    /\ UNCHANGED svcVars
    /\ UNCHANGED <<stream_pc, stream_client, stream_question, fragments,
                   stream_fault, frames, stream_relevant, chunk_count,
                   stream_generations, connected>>
    /\ UNCHANGED outsideStream

\* no streaming request yet
StreamIdle ==
    /\ stream_pc = "idle"
    /\ stream_client = <<>>
    /\ stream_question = <<>>
    /\ fragments = <<>>
    /\ stream_fault = NoStreamFault
    /\ frames = <<>>
    /\ stream_relevant = <<>>
    /\ chunk_count = 0
    /\ stream_generations = 0
    /\ connected = TRUE
    /\ stream_end = <<>>

-----------------------------------------------------------------------------
(* Specifications *)

\* the admission controller serving interleaved requests
Init == AdmissionInit /\ CacheIdle /\ KeyIdle /\ PackIdle /\ ServiceIdle
    /\ DocumentsIdle /\ StreamIdle
Next ==
    \/ \E c \in Clients, path \in Paths : Dispatch(c, path)
    \/ \E c \in Clients, how \in Terminations : Complete(c, how)
    \/ \E c \in Clients, how \in Terminations : HealthComplete(c, how)
    \/ \E d \in TickSteps : Tick(d)
Spec == Init /\ [][Next]_vars

\* the two cache instances driven by one sequence of calls
InitCache == AdmissionIdle /\ CacheInit /\ KeyIdle /\ PackIdle /\ ServiceIdle
    /\ DocumentsIdle /\ StreamIdle
NextCache ==
    \/ \E key \in Keys : CacheGet(key)
    \/ \E key \in Keys, value \in Values, ttl \in TTLs : CacheSet(key, value, ttl)
    \/ \E key \in Keys : CacheDelete(key)
    \/ \E pattern \in Patterns : CacheClearPattern(pattern)
    \/ CacheTick
SpecCache == InitCache /\ [][NextCache]_vars

\* key derivation applied to two bounded inputs
InitKey == AdmissionIdle /\ CacheIdle /\ KeyInit /\ PackIdle /\ ServiceIdle
    /\ DocumentsIdle /\ StreamIdle
NextKey == GenerateKeys
SpecKey == InitKey /\ [][NextKey]_vars

\* the two context packings applied to one bounded retrieval result
InitPack == AdmissionIdle /\ CacheIdle /\ KeyIdle /\ PackInit /\ ServiceIdle
    /\ DocumentsIdle /\ StreamIdle
NextPack ==
    \/ QueryBuildContext
    \/ StreamBuildContext
SpecPack == InitPack /\ [][NextPack]_vars

\* the pipeline's calls on one CacheManager
InitQuery == AdmissionIdle /\ CacheIdle /\ KeyIdle /\ PackIdle /\ ServiceInit
    /\ DocumentsIdle /\ StreamIdle
NextQuery ==
    \/ \E question \in Questions, use_cache \in BOOLEAN,
          getFault \in Faults, setFault \in CommandFaults :
            Query(question, use_cache, getFault, setFault)
    \/ \E fault \in CommandFaults : ProcessDocument(fault)
    \/ \E fault \in Faults : GetDocumentInfo(fault)
    \/ \E fault \in CommandFaults : DeleteDocument(fault)
    \/ \E key \in ServiceKeys, fault \in CommandFaults : DeleteKey(key, fault)
    \/ GetStats
    \/ \E field \in {"hits", "misses", "sets"} : MutateStatsView(field)
    \/ ServiceTick
SpecQuery == InitQuery /\ [][NextQuery]_vars

\* the pipeline's calls on its documents
InitDocuments == AdmissionIdle /\ CacheIdle /\ KeyIdle /\ PackIdle /\ ServiceInit
    /\ DocumentsIdle /\ StreamIdle
NextDocuments ==
    \/ \E d \in DocumentIds : ProcessDocumentAs(d)
    \/ \E question \in ScopedQuestions, document_id \in Scopes,
          use_cache \in BOOLEAN, fail \in CollaboratorFaults :
            QueryScoped(question, document_id, use_cache, fail)
    \/ \E d \in DocumentIds : GetDocumentInfoOf(d)
    \/ \E d \in DocumentIds, fault \in CommandFaults : DeleteDocumentOf(d, fault)
SpecDocuments == InitDocuments /\ [][NextDocuments]_vars

\* one streaming request, beside the calls that fill the cache
InitStream == AdmissionIdle /\ CacheIdle /\ KeyIdle /\ PackIdle /\ ServiceInit
    /\ DocumentsIdle /\ StreamIdle
NextStream ==
    \/ \E c \in Clients, question \in ScopedQuestions, frags \in FragmentLists :
          \E fault \in StreamFaults(frags) :
            StreamDispatch(c, question, frags, fault)
    \/ Pull
    \/ Disconnect
    \/ \E c \in Clients, how \in StreamTerminations : StreamFinish(c, how)
    \/ ProcessDocument("none")
    \/ \E question \in ScopedQuestions : Query(question, TRUE, "none", "none")
SpecStream == InitStream /\ [][NextStream]_vars

-----------------------------------------------------------------------------
(* Observations on the history of the admission controller *)

Last(s) == s[Len(s)]

\* the non-health requests client c issued before its i-th request and within
\* the 60 seconds that end with it
IssuedBefore(c, i) ==
    Cardinality({j \in 1..(i - 1) :
        /\ ~log[c][j].health
        /\ log[c][j].time >= log[c][i].time - WindowSeconds})

\* those of them that were admitted
AdmittedBefore(c, i) ==
    Cardinality({j \in 1..(i - 1) :
        /\ ~log[c][j].health
        /\ log[c][j].resp.outcome = "forwarded"
        /\ log[c][j].time >= log[c][i].time - WindowSeconds})

IsAdmittedEntry(e) == ~e.health /\ e.resp.outcome = "forwarded"

\* the timestamps of the admitted requests of client c, oldest first
AdmittedTimes(c) ==
    LET adm == SelectSeq(log[c], IsAdmittedEntry)
    IN  [i \in 1..Len(adm) |-> adm[i].time]

\* client c issued a request in this step
Issues(c) == Len(log'[c]) = Len(log[c]) + 1

-----------------------------------------------------------------------------
(* C1 *)

\* C1 as stated: a client that issues at most N non-health requests within
\* 60 seconds has every one of them admitted, and the (N+1)-th request within
\* the same 60 seconds is rejected with 429, rate_limit_exceeded, retry_after 60.
C1_AsStated ==
    \A c \in Clients : \A i \in DOMAIN log[c] :
        ~log[c][i].health =>
            /\ IssuedBefore(c, i) + 1 <= RATE_LIMIT_PER_MINUTE
                   => log[c][i].resp = Forwarded
            /\ IssuedBefore(c, i) = RATE_LIMIT_PER_MINUTE
                   => log[c][i].resp = RateLimitResponse

\* C1 (amended): a client that issues at most N non-health requests within 60
\* seconds has every one of them admitted that arrives while fewer than K of
\* its requests are in flight; a request that arrives when N requests of the
\* client were admitted within the preceding 60 seconds is rejected with 429,
\* rate_limit_exceeded, retry_after 60.
C1_RateLimit ==
    \A c \in Clients : \A i \in DOMAIN log[c] :
        ~log[c][i].health =>
            /\ (/\ IssuedBefore(c, i) + 1 <= RATE_LIMIT_PER_MINUTE
                /\ log[c][i].inflight < MAX_CONCURRENT_REQUESTS)
                   => log[c][i].resp = Forwarded
            /\ AdmittedBefore(c, i) >= RATE_LIMIT_PER_MINUTE
                   => log[c][i].resp = RateLimitResponse

\* N >= 2 requests were admitted within 60 seconds and the next one, still
\* within the 60 seconds, was rejected by the rate check
C1_Witness ==
    \E c \in Clients : \E i \in DOMAIN log[c] :
        /\ RATE_LIMIT_PER_MINUTE >= 2
        /\ ~log[c][i].health
        /\ IssuedBefore(c, i) = RATE_LIMIT_PER_MINUTE
        /\ AdmittedBefore(c, i) = RATE_LIMIT_PER_MINUTE
        /\ log[c][i].resp = RateLimitResponse

-----------------------------------------------------------------------------
(* C2 *)

\* C2 as stated: with K admitted requests in flight a further request is
\* rejected with too_many_concurrent_requests and retry_after 10; with fewer
\* in flight (one has completed) it passes the concurrency check.
C2_AsStated ==
    \A c \in Clients : \A i \in DOMAIN log[c] :
        ~log[c][i].health =>
            /\ log[c][i].inflight >= MAX_CONCURRENT_REQUESTS
                   => log[c][i].resp = ConcurrentResponse
            /\ log[c][i].inflight < MAX_CONCURRENT_REQUESTS
                   => log[c][i].resp # ConcurrentResponse

\* C2 (amended): with K admitted requests in flight a further request is
\* rejected with status 429: with too_many_concurrent_requests and retry_after
\* 10 when fewer than N requests of the client were admitted in the trailing 60
\* seconds, with rate_limit_exceeded and retry_after 60 otherwise (the rate
\* check comes first); with fewer than K in flight it passes the concurrency
\* check.
C2_Concurrency ==
    \A c \in Clients : \A i \in DOMAIN log[c] :
        ~log[c][i].health =>
            /\ (/\ log[c][i].inflight >= MAX_CONCURRENT_REQUESTS
                /\ AdmittedBefore(c, i) < RATE_LIMIT_PER_MINUTE)
                   => log[c][i].resp = ConcurrentResponse
            /\ (/\ log[c][i].inflight >= MAX_CONCURRENT_REQUESTS
                /\ AdmittedBefore(c, i) >= RATE_LIMIT_PER_MINUTE)
                   => log[c][i].resp = RateLimitResponse
            /\ log[c][i].inflight < MAX_CONCURRENT_REQUESTS
                   => log[c][i].resp # ConcurrentResponse

\* a request was rejected by the concurrency check, one of the requests in
\* flight then terminated, and a later request of the same client was admitted
C2_Witness ==
    \E c \in Clients : \E i, j \in DOMAIN log[c] :
        /\ i < j
        /\ log[c][i].resp = ConcurrentResponse
        /\ log[c][i].inflight = MAX_CONCURRENT_REQUESTS
        /\ IsAdmittedEntry(log[c][j])
        /\ log[c][j].inflight = MAX_CONCURRENT_REQUESTS - 1
        /\ terminated[c] >= 1

-----------------------------------------------------------------------------
(* C3 *)

\* C3: for every client the in-flight counter equals the number of its
\* admitted requests whose downstream call has not terminated (one increment
\* per admission, one decrement per termination) and is never negative.
C3_InFlightCounter ==
    \A c \in Clients :
        /\ concurrent_requests[c] = downstream[c]
        /\ concurrent_requests[c] = Len(AdmittedTimes(c)) - terminated[c]
        /\ concurrent_requests[c] >= 0

\* some admitted requests of a client have terminated while another is still
\* in flight
C3_Witness ==
    \E c \in Clients : terminated[c] >= 1 /\ downstream[c] >= 1

-----------------------------------------------------------------------------
(* C4 *)

\* C4: a step in which a request is rejected starts no downstream call,
\* leaves every in-flight counter as it was and appends no timestamp: the
\* client's window is a suffix of what it was, the other windows are unchanged.
C4_RejectedLeavesNoTrace ==
    [][\A c \in Clients :
          (Issues(c) /\ Last(log'[c]).resp.outcome = "rejected") =>
              /\ concurrent_requests' = concurrent_requests
              /\ downstream' = downstream
              /\ healthDownstream' = healthDownstream
              /\ terminated' = terminated
              /\ IsSuffix(requests'[c], requests[c])
              /\ \A d \in Clients \ {c} : requests'[d] = requests[d]]_vars

\* one request was rejected by the rate check and one by the concurrency check
C4_Witness ==
    /\ \E c \in Clients : \E i \in DOMAIN log[c] : log[c][i].resp = RateLimitResponse
    /\ \E c \in Clients : \E i \in DOMAIN log[c] : log[c][i].resp = ConcurrentResponse

-----------------------------------------------------------------------------
(* C5 *)

\* C5: under every interleaving the in-flight counter never exceeds the
\* concurrency limit, the window never holds more timestamps than the
\* per-minute limit, and no append is lost: the window is a suffix of the
\* timestamps of the client's admitted requests.
C5_AtomicAdmission ==
    \A c \in Clients :
        /\ concurrent_requests[c] <= MAX_CONCURRENT_REQUESTS
        /\ Len(requests[c]) <= RATE_LIMIT_PER_MINUTE
        /\ IsSuffix(requests[c], AdmittedTimes(c))

\* two requests of one client are suspended in the downstream call at the
\* same time, with the counter and the window at their limits
C5_Witness ==
    \E c \in Clients :
        /\ downstream[c] >= 2
        /\ concurrent_requests[c] = MAX_CONCURRENT_REQUESTS
        /\ Len(requests[c]) = RATE_LIMIT_PER_MINUTE

-----------------------------------------------------------------------------
(* C6 *)

\* C6: a step in which a health probe is issued forwards it to the downstream
\* handler and changes no window and no in-flight counter.
C6_HealthBypass ==
    [][\A c \in Clients :
          (Issues(c) /\ Last(log'[c]).health) =>
              /\ Last(log'[c]).resp = Forwarded
              /\ healthDownstream'[c] = healthDownstream[c] + 1
              /\ requests' = requests
              /\ concurrent_requests' = concurrent_requests]_vars

\* a health probe was forwarded while the client's window and in-flight
\* counter were both at their limits
C6_Witness ==
    \E c \in Clients :
        /\ log[c] # <<>>
        /\ Last(log[c]).health
        /\ Last(log[c]).resp = Forwarded
        /\ Last(log[c]).time = now
        /\ RateLimited(CleanOld(requests[c], now))
        /\ TooManyConcurrent(concurrent_requests[c])
-----------------------------------------------------------------------------
(* Observations on the cache *)

\* the keys an instance still serves at time t
MemLiveKeys(t) == {k \in DOMAIN memory_cache : memory_cache[k].expires > t}
RedisLiveKeys(t) == DOMAIN RedisLive(redis_store, t)

\* the last cache call was `op` and nothing has happened since, not even time
JustCalled(op) == result.op = op /\ result.at = now

-----------------------------------------------------------------------------
(* C7 *)

\* C7: a get(key) that follows a successful set(key, v, ttl), with no set,
\* delete or clear_pattern in between, returns v while ttl has not elapsed;
\* once ttl has elapsed it returns a miss, and the in-process instance has
\* then removed the entry.
C7_RoundTrip ==
    \A k \in Keys :
        (JustCalled("get") /\ result.arg = k /\ lastSet[k] # <<>>) =>
            LET s == lastSet[k][1]
                fresh == now < s.until
            IN  /\ s.memOk =>
                     IF fresh THEN result.mem = s.value
                     ELSE result.mem = NoneVal /\ k \notin DOMAIN memory_cache
                /\ s.redisOk =>
                     IF fresh THEN result.redis = s.value
                     ELSE result.redis = NoneVal

\* a set with a positive ttl succeeded on both instances, the ttl elapsed, and
\* the get that followed missed and removed the entry of the in-process map
C7_Witness ==
    \E k \in Keys :
        /\ JustCalled("get") /\ result.arg = k
        /\ lastSet[k] # <<>>
        /\ lastSet[k][1].memOk /\ lastSet[k][1].redisOk
        /\ now >= lastSet[k][1].until
        /\ result.mem = NoneVal /\ result.redis = NoneVal
        /\ k \notin DOMAIN memory_cache

-----------------------------------------------------------------------------
(* C8 *)

\* C8: after every sequence of get, set, delete and clear_pattern calls the
\* in-process instance and the Redis instance have returned the same result
\* and serve the same set of keys.
C8_BackendsAgree ==
    /\ result.mem = result.redis
    /\ MemLiveKeys(now) = RedisLiveKeys(now)

-----------------------------------------------------------------------------
(* C9 *)

\* C9: a clear_pattern(p) step removes exactly the keys that match the glob p,
\* keeps every other key with its value, and returns the number of keys it
\* removed; on both instances.
C9_ClearPatternIsGlob ==
    [][(now' = now /\ result'.op = "clear_pattern") =>
          LET p == result'.arg
              live == RedisLive(redis_store, now)
          IN  /\ DOMAIN memory_cache' =
                    {k \in DOMAIN memory_cache : ~GlobMatch(p, k)}
              /\ \A k \in DOMAIN memory_cache' : memory_cache'[k] = memory_cache[k]
              /\ result'.mem =
                    Cardinality(DOMAIN memory_cache \ DOMAIN memory_cache')
              /\ DOMAIN redis_store' = {k \in DOMAIN live : ~GlobMatch(p, k)}
              /\ \A k \in DOMAIN redis_store' : redis_store'[k] = live[k]
              /\ result'.redis = Cardinality(DOMAIN live \ DOMAIN redis_store')]_vars

-----------------------------------------------------------------------------
(* C10 *)

\* the same call: same prefix, same positional arguments, same keyword
\* arguments whatever their order
SameCall(a, b) ==
    /\ a.prefix = b.prefix
    /\ a.args = b.args
    /\ {a.kwargs[i] : i \in DOMAIN a.kwargs} = {b.kwargs[i] : i \in DOMAIN b.kwargs}

CallKeyString(call) == KeyString(call.prefix, call.args, call.kwargs)

IsLongCall(call) == Len(CallKeyString(call)) > MaxKeyLength

\* C10: the same (prefix, args, kwargs in any order) yields the same key; a
\* joined string longer than 200 characters yields prefix:hash:<hash of it>,
\* a shorter one yields itself; two different long inputs never yield the
\* same key.
C10_KeyDerivation ==
    keyOutputs # <<>> =>
        /\ SameCall(keyInputs[1], keyInputs[2]) => keyOutputs[1] = keyOutputs[2]
        /\ \A i \in 1..2 :
              keyOutputs[i] =
                 IF IsLongCall(keyInputs[i])
                 THEN keyInputs[i].prefix \o <<":", "h", "a", "s", "h", ":">>
                        \o Md5HexDigest(CallKeyString(keyInputs[i]))
                 ELSE CallKeyString(keyInputs[i])
        /\ (/\ ~SameCall(keyInputs[1], keyInputs[2])
            /\ IsLongCall(keyInputs[1])
            /\ IsLongCall(keyInputs[2]))
               => keyOutputs[1] # keyOutputs[2]

-----------------------------------------------------------------------------
(* Observations on a packing *)

\* the length of the first k chunks together
RECURSIVE PrefixLen(_, _)
PrefixLen(docs, k) ==
    IF k = 0 THEN 0 ELSE PrefixLen(docs, k - 1) + Len(docs[k].content)

\* the number of leading chunks that fit together into max_length
FitCount(docs, max_length) ==
    Cardinality({k \in 1..Len(docs) : PrefixLen(docs, k) <= max_length})

\* what is left of max_length when the first chunk that does not fit is reached
RemainingAtStop(docs, max_length) ==
    max_length - PrefixLen(docs, FitCount(docs, max_length))

QueryPackedDone == queryPacked # <<>>

-----------------------------------------------------------------------------
(* C13: packing walks the ranked chunks in order; every chunk that fits on  *)
(* top of what was consumed is appended whole with a non-partial source     *)
(* entry and advances the consumed length; the sources are a prefix of the  *)
(* ranked chunks in their order, with at most one partial entry, the last.  *)

C13_PackingPrefix ==
    QueryPackedDone =>
        LET r == queryPacked[1]
            n == FitCount(relevant_docs, max_context_length)
        IN  /\ Len(r.sources_used) \in {n, n + 1}
            /\ Len(r.sources_used) <= Len(relevant_docs)
            /\ Len(r.context_parts) = Len(r.sources_used)
            /\ r.current_length = PrefixLen(relevant_docs, n)
            /\ \A k \in 1..n :
                  /\ r.context_parts[k] = relevant_docs[k].content
                  /\ ~r.sources_used[k].partial
            /\ \A k \in 1..Len(r.sources_used) :
                  /\ r.sources_used[k].filename = relevant_docs[k].metadata.filename
                  /\ r.sources_used[k].chunk_index
                        = relevant_docs[k].metadata.chunk_index
                  /\ r.sources_used[k].partial => k = Len(r.sources_used)

\* two whole chunks and a partial third
C13_Witness ==
    /\ QueryPackedDone
    /\ FitCount(relevant_docs, max_context_length) = 2
    /\ Len(queryPacked[1].sources_used) = 3
    /\ queryPacked[1].sources_used[3].partial

-----------------------------------------------------------------------------
(* C14: when the first chunk that does not fit is reached with more than    *)
(* 200 characters remaining, its first `remaining` characters are taken,    *)
(* cut back to the last whitespace boundary and followed by "...", its      *)
(* source is recorded as partial, and no later chunk is considered.         *)

C14_PartialChunk ==
    QueryPackedDone =>
        LET r == queryPacked[1]
            n == FitCount(relevant_docs, max_context_length)
            remaining == RemainingAtStop(relevant_docs, max_context_length)
        IN  (n < Len(relevant_docs) /\ remaining > MinPartialSpace) =>
                LET taken == Take(relevant_docs[n + 1].content, remaining)
                    part == r.context_parts[n + 1]
                    kept == Len(part) - Len(Ellipsis)
                IN  /\ Len(r.context_parts) = n + 1
                    /\ Len(r.sources_used) = n + 1
                    /\ r.sources_used[n + 1] = SourceInfo(relevant_docs[n + 1], TRUE)
                    /\ kept >= 0
                    /\ kept <= Len(taken)
                    /\ part = SubSeq(taken, 1, kept) \o Ellipsis
                    /\ IF \E i \in 1..Len(taken) : taken[i] = " "
                       THEN /\ kept < Len(taken)
                            /\ taken[kept + 1] = " "
                            /\ \A i \in (kept + 2)..Len(taken) : taken[i] # " "
                       ELSE kept = Len(taken)

\* a partial chunk cut back to a space, followed by a chunk that would fit in
\* the space left
C14_Witness ==
    /\ QueryPackedDone
    /\ LET r == queryPacked[1]
           n == FitCount(relevant_docs, max_context_length)
       IN  /\ n + 2 <= Len(relevant_docs)
           /\ RemainingAtStop(relevant_docs, max_context_length) > MinPartialSpace
           /\ Len(r.context_parts) = n + 1
           /\ Len(r.context_parts[n + 1])
                 < RemainingAtStop(relevant_docs, max_context_length)
           /\ PrefixLen(relevant_docs, n) + Len(r.context_parts[n + 1])
                 + Len(relevant_docs[n + 2].content) <= max_context_length

-----------------------------------------------------------------------------
(* C15: when the first chunk that does not fit is reached with at most 200  *)
(* characters remaining, packing stops: neither that chunk nor a later one  *)
(* gives a part or a source entry.                                          *)

C15_NoSmallPartial ==
    QueryPackedDone =>
        LET r == queryPacked[1]
            n == FitCount(relevant_docs, max_context_length)
            remaining == RemainingAtStop(relevant_docs, max_context_length)
        IN  (n < Len(relevant_docs) /\ remaining <= MinPartialSpace) =>
                /\ r.context_parts = [k \in 1..n |-> relevant_docs[k].content]
                /\ Len(r.sources_used) = n
                /\ \A k \in 1..n : ~r.sources_used[k].partial

\* chunks of 100, 100 and 50 characters with max_context_length = 180: only
\* the first chunk and one source entry
C15_Witness ==
    /\ QueryPackedDone
    /\ [k \in 1..Len(relevant_docs) |-> Len(relevant_docs[k].content)]
          = <<MinPartialSpace \div 2, MinPartialSpace \div 2, MinPartialSpace \div 4>>
    /\ max_context_length = MinPartialSpace - 20
    /\ queryPacked[1].context_parts = <<relevant_docs[1].content>>
    /\ Len(queryPacked[1].sources_used) = 1

-----------------------------------------------------------------------------
(* C16: for every retrieval result and every max_context_length, the        *)
(* streaming path builds the same context string as the synchronous path.   *)

C16_StreamSameContext ==
    (queryPacked # <<>> /\ streamPacked # <<>>) =>
        streamPacked[1].context = queryPacked[1].context

-----------------------------------------------------------------------------
(* Observations on the pipeline and its cache *)

\* a pipeline or cache call was made in this step
Called == calls' = calls + 1

QueryKeySet == {QueryCacheKey(q) : q \in Questions}

HasEntry(key) ==
    IF redis_client THEN key \in DOMAIN redis_store
    ELSE key \in DOMAIN memory_cache

\* the contents of the entry stored under key
StoredResult(key) ==
    IF redis_client THEN Unpickle(redis_store[key].value)
    ELSE heap[memory_cache[key].value]

\* what a query that computes its answer returns
FreshlyComputed ==
    IF indexed
    THEN FreshResult(Response(generations), RetrievedDocs,
                     QueryPack(RetrievedDocs, DefaultMaxContextLength).sources_used)
    ELSE FallbackResult

-----------------------------------------------------------------------------
(* C11: a failure of the cache backing store never leaves the cache layer   *)
(* and never fails a query: get returns a miss, set returns failure, delete *)
(* returns false, clear_pattern returns 0, and a query whose cache read or  *)
(* write fails still retrieves, generates and returns the fresh result.     *)

C11_CacheFailuresSwallowed ==
    /\ ~outcome.raised
    /\ (outcome.op = "get" /\ outcome.fault # "none") =>
          outcome.ret = NoneVal /\ ~outcome.hit
    /\ (outcome.op = "set" /\ outcome.fault # "none") => ~outcome.ok
    /\ (outcome.op = "delete" /\ outcome.fault # "none") => ~outcome.ok
    /\ (outcome.op = "clear_pattern" /\ outcome.fault # "none") => outcome.count = 0
    /\ (outcome.op = "query"
          /\ (outcome.fault # "none" \/ outcome.setFault # "none")) =>
          /\ ~outcome.hit
          /\ outcome.retrieved = 1
          /\ indexed => outcome.generated = 1
          /\ heap[outcome.ret] = FreshlyComputed

\* a query on a live entry whose cache read and cache write both failed
C11_Witness ==
    /\ outcome.op = "query"
    /\ outcome.live
    /\ outcome.fault = "backend"
    /\ outcome.setFault = "backend"
    /\ outcome.generated = 1
    /\ ~outcome.ok

-----------------------------------------------------------------------------
(* C12: the hits, misses and sets counters never decrease; every get call   *)
(* increases exactly one of hits and misses, by one, also when the backend  *)
(* or the deserialization fails; every successful set increases sets by     *)
(* one; writing into the mapping get_stats returned changes no counter.     *)

C12_Counters ==
    [][/\ cache_stats'.hits >= cache_stats.hits
       /\ cache_stats'.misses >= cache_stats.misses
       /\ cache_stats'.sets >= cache_stats.sets
       /\ (cache_stats'.hits - cache_stats.hits)
             + (cache_stats'.misses - cache_stats.misses)
             = IF Called THEN outcome'.gets ELSE 0
       /\ (Called /\ outcome'.setsTried = 1 /\ outcome'.ok) =>
             cache_stats'.sets = cache_stats.sets + 1
       /\ (Called /\ outcome'.op = "mutate_stats") => cache_stats' = cache_stats
      ]_vars

-----------------------------------------------------------------------------
(* C17: a query with use_cache = true whose key holds a live entry returns  *)
(* that entry with cached = true and calls neither retrieval nor generation.*)

C17_CacheHit ==
    [][(/\ Called
        /\ outcome'.op = "query"
        /\ outcome'.use_cache
        /\ outcome'.fault = "none"
        /\ LiveEntry(outcome'.key)) =>
           /\ outcome'.hit
           /\ heap'[outcome'.ret]
                 = [StoredResult(outcome'.key) EXCEPT !.cached = TRUE]
           /\ retrievals' = retrievals
           /\ generations' = generations
      ]_vars

\* a query served from the cache after at least one generation
C17_Witness ==
    /\ outcome.op = "query"
    /\ outcome.use_cache
    /\ outcome.live
    /\ outcome.hit
    /\ heap[outcome.ret].cached
    /\ generations > 0

-----------------------------------------------------------------------------
(* C18: every query result stored in the cache has cached = false; serving  *)
(* a hit sets cached = true on the value returned to that caller only,      *)
(* never on the stored entry nor on a result returned earlier.              *)

C18_StoredNeverCached ==
    [][/\ \A key \in QueryKeySet :
             HasEntry(key)' => ~(StoredResult(key).cached)'
       /\ \A ref \in DOMAIN heap :
             heap[ref].kind = "query" => heap'[ref].cached = heap[ref].cached
      ]_vars

-----------------------------------------------------------------------------
(* C19: when retrieval returns nothing, query returns the fixed fallback    *)
(* answer with source_documents = 0, sources = [] and cached = false, does  *)
(* not call generation and writes nothing to the cache: no fallback is ever *)
(* stored, so a later query is not answered by one.                         *)

C19_NoResults ==
    [][/\ (Called /\ outcome'.op = "query" /\ outcome'.retrieved = 1 /\ ~indexed) =>
             /\ heap'[outcome'.ret] = FallbackResult
             /\ generations' = generations
             /\ outcome'.setsTried = 0
             /\ cache_stats'.sets = cache_stats.sets
             /\ \A key \in DOMAIN memory_cache' :
                   key \in DOMAIN memory_cache
                      /\ memory_cache'[key] = memory_cache[key]
             /\ \A key \in DOMAIN redis_store' :
                   key \in DOMAIN redis_store
                      /\ redis_store'[key] = redis_store[key]
       /\ \A key \in QueryKeySet :
             HasEntry(key)' => (StoredResult(key).answer # FallbackAnswer)'
      ]_vars

\* a caching query that found nothing to retrieve
C19_Witness ==
    /\ outcome.op = "query"
    /\ outcome.use_cache
    /\ outcome.retrieved = 1
    /\ ~indexed
    /\ heap[outcome.ret].answer = FallbackAnswer
    /\ ~HasEntry(outcome.key)

-----------------------------------------------------------------------------
(* C20: a query with use_cache = false neither reads nor writes the cache:  *)
(* it runs retrieval (and generation when there are results), returns       *)
(* cached = false and leaves every cache entry unchanged.                   *)

C20_NoCacheUse ==
    [][(Called /\ outcome'.op = "query" /\ ~outcome'.use_cache) =>
           /\ outcome'.gets = 0
           /\ outcome'.setsTried = 0
           /\ memory_cache' = memory_cache
           /\ redis_store' = redis_store
           /\ cache_stats' = cache_stats
           /\ \A ref \in DOMAIN heap : heap'[ref] = heap[ref]
           /\ retrievals' = retrievals + 1
           /\ generations' = generations + (IF indexed THEN 1 ELSE 0)
           /\ heap'[outcome'.ret] = FreshlyComputed'
      ]_vars

\* a query that bypassed a live entry of its key and generated its answer
C20_Witness ==
    /\ outcome.op = "query"
    /\ ~outcome.use_cache
    /\ outcome.live
    /\ outcome.generated = 1
    /\ ~heap[outcome.ret].cached

-----------------------------------------------------------------------------
(* C30: a rate-limited client is admitted again: once more than 60 seconds  *)
(* have passed since the oldest admitted request in its window, its next    *)
(* request passes the rate check, however many requests were rejected in    *)
(* between.                                                                 *)

C30_AdmittedAgain ==
    [][\A c \in Clients :
          (/\ Issues(c)
           /\ ~Last(log'[c]).health
           /\ requests[c] # <<>>
           /\ now > Head(requests[c]) + WindowSeconds) =>
              Last(log'[c]).resp # RateLimitResponse]_vars

\* a client at its limit had a request rejected by the rate check and, more
\* than 60 seconds after the request that filled its window, one admitted
C30_Witness ==
    \E c \in Clients : \E i, j, k \in DOMAIN log[c] :
        /\ i < j /\ j < k
        /\ IsAdmittedEntry(log[c][i])
        /\ IssuedBefore(c, j) >= RATE_LIMIT_PER_MINUTE
        /\ log[c][j].resp = RateLimitResponse
        /\ IsAdmittedEntry(log[c][k])
        /\ log[c][k].time > log[c][i].time + WindowSeconds
        /\ log[c][k].time <= log[c][j].time + WindowSeconds

-----------------------------------------------------------------------------
(* C26: for every list of ranked chunks and every max_context_length, the   *)
(* lengths of the parts placed into the packed context ("..." included,     *)
(* separators excluded) sum to at most max_context_length, in query and in  *)
(* stream_query.                                                            *)

RECURSIVE PartsLength(_)
PartsLength(parts) ==
    IF parts = <<>> THEN 0 ELSE Len(Head(parts)) + PartsLength(Tail(parts))

C26_WithinBudget ==
    /\ queryPacked # <<>> =>
          PartsLength(queryPacked[1].context_parts) <= max_context_length
    /\ streamPacked # <<>> =>
          PartsLength(streamPacked[1].context_parts) <= max_context_length

-----------------------------------------------------------------------------
(* Observations on the documents *)

\* the keys the backend in use holds at time t
StoredKeys(client, mem, redis, t) ==
    IF client THEN DOMAIN RedisLive(redis, t) ELSE DOMAIN mem

\* no entry of the backend in use is new or has changed in the step
NothingWritten ==
    /\ \A key \in DOMAIN memory_cache' :
          key \in DOMAIN memory_cache /\ memory_cache'[key] = memory_cache[key]
    /\ \A key \in DOMAIN redis_store' :
          key \in DOMAIN redis_store /\ redis_store'[key] = redis_store[key]
    /\ cache_stats'.sets = cache_stats.sets

-----------------------------------------------------------------------------
(* C24: delete_document(d) deletes the backing file of d, removes every    *)
(* cache key that contains the identifier d, so that a following           *)
(* get_document_info(d) reports the document as absent, returns whether    *)
(* the file was deleted, and leaves the chunks of d in the retrieval index.*)
(* The cache keys are removed when the backend executes the commands of    *)
(* clear_pattern.                                                          *)

-----------------------------------------------------------------------------
(* C25: within one query, retrieval is called at most once and generation  *)
(* at most once; if either call fails, the query ends with one failure to  *)
(* its caller and writes no entry to the cache.                            *)

C25_NoRetry ==
    [][(Called /\ outcome'.op = "query") =>
          /\ retrievals' - retrievals \in {0, 1}
          /\ generations' - generations \in {0, 1}
          /\ outcome'.retrieved = retrievals' - retrievals
          /\ outcome'.generated = generations' - generations
          /\ (\/ outcome'.fail = "retrieval" /\ retrievals' # retrievals
              \/ outcome'.fail = "generation" /\ generations' # generations) =>
                /\ outcome'.raised
                /\ outcome'.ret = NoneVal
                /\ NothingWritten
      ]_vars

\* a query with use_cache = true whose generation call failed
C25_Witness ==
    /\ outcome.op = "query"
    /\ outcome.use_cache
    /\ outcome.fail = "generation"
    /\ outcome.retrieved = 1
    /\ outcome.generated = 1
    /\ outcome.raised

-----------------------------------------------------------------------------
(* C27: for a fixed question and level, two queries with different document*)
(* scopes never derive the same cache key: a result cached for one scope   *)
(* is never returned as a cache hit for a query with another scope.        *)

C27_ScopesSeparated ==
    (outcome.op = "query" /\ outcome.hit) =>
        /\ madeFor[heap[outcome.ret].answer] = outcome.document_id
        /\ \A document_id \in Scopes \ {outcome.document_id} :
              ScopedCacheKey(CHOOSE q \in ScopedQuestions : TRUE, document_id) # outcome.key

-----------------------------------------------------------------------------
(* C28: after delete_document(d) has returned, a query scoped to d with     *)
(* use_cache = true is never answered from a cache entry written before the*)
(* deletion.                                                               *)

C28_DeletionInvalidates ==
    (/\ outcome.op = "query"
     /\ outcome.hit
     /\ outcome.document_id \in DocumentIds) =>
        heap[outcome.ret].answer \notin stale


-----------------------------------------------------------------------------
(* Observations on the streaming request *)

TerminalStatuses == {"completed", "no_context", "error"}

FrameStatus(i) == frames[i].metadata.status

\* the first k frames are the first k frames of the run without a failure
IsFailureFreePrefix(k) ==
    /\ k <= Len(fragments) + 1
    /\ k >= 1 => FrameStatus(1) = "streaming_started"
    /\ \A i \in 2..k :
          /\ FrameStatus(i) = "streaming"
          /\ frames[i].chunk = fragments[i - 1]
          /\ frames[i].metadata.chunk_number = i - 1

\* a collaborator call of the run raised
StreamFailed ==
    \/ stream_fault.at = "retrieval"
    \/ stream_fault.at = "generation" /\ stream_relevant # <<>>

-----------------------------------------------------------------------------
(* C21: when retrieval is non-empty and generation yields f1..fn without   *)
(* failing, the frames of a stream_query run are exactly streaming_started, *)
(* then streaming frames with chunk = fi and chunk_number = i for i = 1..n *)
(* in order, then completed with total_chunks = n.                         *)

C21_FrameSequence ==
    (/\ stream_pc = "done"
     /\ stream_fault.at = "none"
     /\ stream_relevant # <<>>) =>
        LET n == Len(fragments)
        IN  /\ Len(frames) = n + 2
            /\ FrameStatus(1) = "streaming_started"
            /\ \A i \in 1..n :
                  /\ FrameStatus(i + 1) = "streaming"
                  /\ frames[i + 1].chunk = fragments[i]
                  /\ frames[i + 1].metadata.chunk_number = i
            /\ FrameStatus(n + 2) = "completed"
            /\ frames[n + 2].metadata.total_chunks = n

\* the run of the fragments "Hello", " world"
C21_Witness ==
    /\ stream_pc = "done"
    /\ stream_fault.at = "none"
    /\ fragments = <<"Hello", " world">>
    /\ Len(frames) = 4
    /\ frames[4].metadata.status = "completed"

-----------------------------------------------------------------------------
(* C22: stream_query never writes to the cache, on any of its paths, and   *)
(* never serves its answer from the cache: a step of a streaming query     *)
(* leaves the cache entries and the cache counters as they are, its first  *)
(* step calls retrieval whatever the cache holds, and every content frame  *)
(* carries a fragment of the generation collaborator.                      *)

C22_StreamLeavesCache ==
    [][calls' = calls =>
          /\ memory_cache' = memory_cache
          /\ redis_store' = redis_store
          /\ cache_stats' = cache_stats
          /\ (stream_pc = "created" /\ stream_pc' # "created") =>
                retrievals' = retrievals + 1
          /\ (frames' # frames /\ stream_pc' = "streaming") =>
                /\ stream_generations' >= 1
                /\ frames'[Len(frames')].chunk = fragments[chunk_count']
      ]_vars

\* a run that completed while the cache held a live result for its question
C22_Witness ==
    /\ stream_pc = "done"
    /\ frames # <<>>
    /\ FrameStatus(Len(frames)) = "completed"
    /\ chunk_count >= 1
    /\ LiveEntry(QueryCacheKey(stream_question))
    /\ generations = 1
    /\ retrievals = 2

-----------------------------------------------------------------------------
(* C23: if the caller disconnects while a streaming response is in         *)
(* progress, the client's admission slot is released exactly once, and     *)
(* after the disconnect no further fragment is pulled from the generation  *)
(* collaborator and no further frame is emitted.                           *)

-----------------------------------------------------------------------------
(* C29: a stream_query run consumed to exhaustion ends with exactly one    *)
(* terminal frame (completed, no_context or error) and emits nothing after *)
(* it; with an empty retrieval the only frame is no_context and generation *)
(* is never called; when retrieval or generation fails, one error frame is *)
(* the last frame, no completed frame is emitted, and the frames before it *)
(* are a prefix of the failure-free sequence.                              *)

C29_OneTerminalFrame ==
    /\ \A i \in 1..(Len(frames) - 1) : FrameStatus(i) \notin TerminalStatuses
    /\ stream_pc = "done" =>
          /\ frames # <<>>
          /\ FrameStatus(Len(frames)) \in TerminalStatuses
          /\ (stream_fault.at # "retrieval" /\ stream_relevant = <<>>) =>
                /\ Len(frames) = 1
                /\ FrameStatus(1) = "no_context"
                /\ stream_generations = 0
          /\ StreamFailed =>
                /\ FrameStatus(Len(frames)) = "error"
                /\ \A i \in 1..Len(frames) : FrameStatus(i) # "completed"
                /\ IsFailureFreePrefix(Len(frames) - 1)

\* generation failed after its first fragment
C29_Witness ==
    /\ stream_pc = "done"
    /\ stream_fault = [at |-> "generation", after |-> 1]
    /\ Len(frames) = 3
    /\ FrameStatus(2) = "streaming"
    /\ FrameStatus(3) = "error"

=============================================================================
